---------------------------- MODULE Spec2Model ----------------------------
(***************************************************************************)
(* LockBlock back end: the reward pool ledger (services/rewardPool.js),    *)
(* the game engine (services/lockBlock.js), the room registry              *)
(* (services/roomManager.js) and the message handlers that drive them      *)
(* (handleJoinRoom, handleStartGame, handleAction).                        *)
(*                                                                         *)
(* JavaScript runs each handler to completion up to its next await, so a   *)
(* handler is one action per synchronous segment.                          *)
(*                                                                         *)
(* Amounts are decimal strings in the code ('0.05'); here a decimal string *)
(* is Dec(n), n counting units of 0.01, and a string that is no number is  *)
(* Txt(i).  Timestamps (Date.now) and log lines are not modelled.          *)
(***************************************************************************)
EXTENDS Integers, Sequences, FiniteSets, TLC

VARIABLES
    pool,           \* globalRewardPool
    rooms,          \* roomManager.rooms: room id -> room
    addressToRoom,  \* roomManager.addressToRoom: canonical address -> room id
    nextRoomId,     \* the next id uuidv4() hands out (ids are never reused)
    connections,    \* the handlers' connections map, in insertion order
    appSessions,    \* room ids that have a stored app session
    tasks,          \* suspended handler continuations and armed timers
    ledger,         \* history: the pool operations issued, in order
    steps,          \* history: per room id, the actions accepted so far
    outbox,         \* history: per room id, the messages broadcast to it
    lastCall        \* the last operation and what it returned

vars == <<pool, rooms, addressToRoom, nextRoomId, connections, appSessions,
          tasks, ledger, steps, outbox, lastCall>>

-----------------------------------------------------------------------------
(* Bounds of the model *)

MaxRooms == 2
SoloRooms == 1
MaxPoolOps == 5
MaxActions == 4
MaxConcActions == 3
MaxEngineSteps == 4

(* Program constants *)

InitialLives == 3
NumChunks == 3
ChunkBonus == 100
JumpDistance == 2
DefaultValue == 10

-----------------------------------------------------------------------------
(* Strings that hold amounts, and the numbers parseFloat reads from them *)

Dec(n) == [k |-> "dec", v |-> n]
Txt(i) == [k |-> "txt", v |-> i]
NaNText == Txt(0)          \* the string 'NaN'
JunkText == Txt(1)         \* a string such as 'abc'
Undefined == Txt(2)        \* a field the returned object does not have

Num(n) == [nan |-> FALSE, v |-> n]
NaN == [nan |-> TRUE, v |-> 0]

parseFloat(s) == IF s.k = "dec" THEN Num(s.v) ELSE NaN

toString(f) == IF f.nan THEN NaNText ELSE Dec(f.v)

FAdd(a, b) == IF a.nan \/ b.nan THEN NaN ELSE Num(a.v + b.v)

\* Comparisons with NaN are false.
FLe0(a) == ~a.nan /\ a.v <= 0
FLt0(a) == ~a.nan /\ a.v < 0
FEq0(a) == ~a.nan /\ a.v = 0
FGt0(a) == ~a.nan /\ a.v > 0

-----------------------------------------------------------------------------
(* Addresses.  An address string is [id, form]: the same 40 hex digits      *)
(* written in lower case, in upper case, in the checksum case, or in a      *)
(* mixed case that is not the checksum case.                                *)

AddrIds == {1, 2}
GoodForms == {"lower", "upper", "checksum"}
AllForms == GoodForms \cup {"badmix"}
Addr(i, f) == [id |-> i, form |-> f]
NoAddr == Addr(0, "none")
AllAddrs == {Addr(i, f) : i \in AddrIds, f \in AllForms}

\* ethers.getAddress: the checksum form of an address string; it throws on a
\* mixed-case string whose case is not the checksum case.
getAddressThrows(a) == a.form \notin GoodForms
getAddress(a) == Addr(a.id, "checksum")

-----------------------------------------------------------------------------
(* Maps *)

MapHas(m, k) == k \in DOMAIN m
MapSet(m, k, v) == [x \in (DOMAIN m) \cup {k} |-> IF x = k THEN v ELSE m[x]]
MapDel(m, k) == [x \in (DOMAIN m) \ {k} |-> m[x]]
EmptyMap == [x \in {} |-> 0]

-----------------------------------------------------------------------------
(* services/rewardPool.js *)

InitialPool == [totalAmount |-> Dec(0), totalGames |-> 0, totalWins |-> 0,
                totalLosses |-> 0]

\* What a pool operation returns.
PoolResult(ok, err, amt, total) ==
    [success |-> ok, error |-> err, amount |-> amt, newTotal |-> total]

getRewardPool(p) == p

\* Variant of addToRewardPool that leaves totalGames alone.
addToRewardPoolDropsCount(p, amount) ==
    LET newTotal == toString(FAdd(parseFloat(p.totalAmount), parseFloat(amount)))
    IN [pool |-> [p EXCEPT !.totalAmount = newTotal,
                           !.totalLosses = @ + 1],
        result |-> PoolResult(TRUE, "", amount, newTotal)]

addToRewardPool(p, amount) ==
    LET currentAmount == parseFloat(p.totalAmount)
        addAmount == parseFloat(amount)
        newTotal == toString(FAdd(currentAmount, addAmount))
    IN [pool |-> [p EXCEPT !.totalAmount = newTotal,
                           !.totalLosses = @ + 1,
                           !.totalGames = @ + 1],
        result |-> PoolResult(TRUE, "", amount, newTotal)]

\* Variant of withdrawFromRewardPool that does not zero the total.
withdrawFromRewardPoolKeepsTotal(p) ==
    LET currentAmount == parseFloat(p.totalAmount)
    IN IF FLe0(currentAmount)
       THEN [pool |-> p,
             result |-> PoolResult(FALSE, "No funds available in reward pool",
                                   Dec(0), Undefined)]
       ELSE [pool |-> [p EXCEPT !.totalWins = @ + 1,
                                !.totalGames = @ + 1],
             result |-> PoolResult(TRUE, "", p.totalAmount, Dec(0))]

\* Variant of withdrawFromRewardPool that counts a win on an empty pool.
withdrawFromRewardPoolCountsFailure(p) ==
    LET currentAmount == parseFloat(p.totalAmount)
    IN IF FLe0(currentAmount)
       THEN [pool |-> [p EXCEPT !.totalWins = @ + 1,
                                !.totalGames = @ + 1],
             result |-> PoolResult(FALSE, "No funds available in reward pool",
                                   Dec(0), Undefined)]
       ELSE [pool |-> [p EXCEPT !.totalAmount = Dec(0),
                                !.totalWins = @ + 1,
                                !.totalGames = @ + 1],
             result |-> PoolResult(TRUE, "", p.totalAmount, Dec(0))]

withdrawFromRewardPool(p) ==
    LET currentAmount == parseFloat(p.totalAmount)
    IN IF FLe0(currentAmount)
       THEN [pool |-> p,
             result |-> PoolResult(FALSE, "No funds available in reward pool",
                                   Dec(0), Undefined)]
       ELSE [pool |-> [p EXCEPT !.totalAmount = Dec(0),
                                !.totalWins = @ + 1,
                                !.totalGames = @ + 1],
             result |-> PoolResult(TRUE, "", p.totalAmount, Dec(0))]

resetRewardPool(p) ==
    [pool |-> InitialPool,
     result |-> PoolResult(TRUE, "", p.totalAmount, Dec(0))]

validateEntryDeposit(entryDeposit) ==
    LET depositAmount == parseFloat(entryDeposit)
    IN IF FLt0(depositAmount) THEN FALSE
       ELSE IF FEq0(depositAmount) THEN TRUE
       ELSE TRUE

calculatePotentialReward(p, entryDeposit) ==
    [currentPoolAmount |-> p.totalAmount,
     entryDeposit |-> entryDeposit,
     potentialWinAmount |-> p.totalAmount,
     riskAmount |-> entryDeposit,
     poolAfterLoss |-> toString(FAdd(parseFloat(p.totalAmount),
                                     parseFloat(entryDeposit)))]

-----------------------------------------------------------------------------
(* services/lockBlock.js *)

\* An optional number of an action's data: <<>> when the field is absent.
Opt(n) == <<n>>
Absent == <<>>
OrDefault(o, d) == IF o = Absent THEN d ELSE o[1]

DefaultDistance == 1

Action(t, dir, dist, obj, val) ==
    [type |-> t, direction |-> dir, distance |-> dist, objectType |-> obj,
     value |-> val]

NoGame == [none |-> TRUE]

generateInitialChunks == [i \in 1..NumChunks |-> FALSE]

createGame(playerEoa, entryDeposit, currentPoolAmount) ==
    [player |-> [eoa |-> getAddress(playerEoa),
                 position |-> [x |-> 0, y |-> 0],
                 lives |-> InitialLives,
                 score |-> 0],
     chunks |-> generateInitialChunks,
     currentChunk |-> 0,
     isGameOver |-> FALSE,
     gameResult |-> "none",
     rewardPool |-> currentPoolAmount,
     entryDeposit |-> entryDeposit]

Max(a, b) == IF a >= b THEN a ELSE b

\* Variant of processMovement without Math.max on the left and up moves.
processMovementUnclamped(gs, direction, distance) ==
    LET pos == gs.player.position
        newPosition ==
            CASE direction = "left"  -> [pos EXCEPT !.x = pos.x - distance]
              [] direction = "right" -> [pos EXCEPT !.x = pos.x + distance]
              [] direction = "up"    -> [pos EXCEPT !.y = pos.y - distance]
              [] direction = "down"  -> [pos EXCEPT !.y = pos.y + distance]
              [] OTHER               -> pos
    IN [gs EXCEPT !.player.position = newPosition]

processMovement(gs, direction, distance) ==
    LET pos == gs.player.position
        newPosition ==
            CASE direction = "left"  -> [pos EXCEPT !.x = Max(0, pos.x - distance)]
              [] direction = "right" -> [pos EXCEPT !.x = pos.x + distance]
              [] direction = "up"    -> [pos EXCEPT !.y = Max(0, pos.y - distance)]
              [] direction = "down"  -> [pos EXCEPT !.y = pos.y + distance]
              [] OTHER               -> pos
    IN [gs EXCEPT !.player.position = newPosition]

processJump(gs) == processMovement(gs, "up", JumpDistance)

\* Variant of processInteraction that adds the bare value for every known
\* object type.
processInteractionFlat(gs, objectType, value) ==
    IF objectType \in {"coin", "gem", "treasure", "powerup"}
    THEN [gs EXCEPT !.player.score = @ + value]
    ELSE gs

processInteraction(gs, objectType, value) ==
    CASE objectType = "coin"     -> [gs EXCEPT !.player.score = @ + value]
      [] objectType = "gem"      -> [gs EXCEPT !.player.score = @ + value * 2]
      [] objectType = "treasure" -> [gs EXCEPT !.player.score = @ + value * 5]
      [] objectType = "powerup"  -> [gs EXCEPT !.player.score = @ + value]
      [] OTHER                   -> gs

\* Variant of processChunkCompletion that moves on without setting the flag
\* of the chunk it leaves.
processChunkCompletionSkipsFlag(gs) ==
    LET nextChunk == gs.currentChunk + 1
        isGameComplete == nextChunk >= Len(gs.chunks)
    IN [gs EXCEPT !.chunks = IF isGameComplete
                             THEN [gs.chunks EXCEPT ![gs.currentChunk + 1] = TRUE]
                             ELSE gs.chunks,
                  !.currentChunk = IF isGameComplete THEN gs.currentChunk
                                   ELSE nextChunk,
                  !.player.score = @ + ChunkBonus]

\* Variant of processChunkCompletion that advances currentChunk every time.
processChunkCompletionOverruns(gs) ==
    [gs EXCEPT !.chunks = [gs.chunks EXCEPT ![gs.currentChunk + 1] = TRUE],
               !.currentChunk = gs.currentChunk + 1,
               !.player.score = @ + ChunkBonus]

processChunkCompletion(gs) ==
    LET updatedChunks == [gs.chunks EXCEPT ![gs.currentChunk + 1] = TRUE]
        nextChunk == gs.currentChunk + 1
        isGameComplete == nextChunk >= Len(updatedChunks)
    IN [gs EXCEPT !.chunks = updatedChunks,
                  !.currentChunk = IF isGameComplete THEN gs.currentChunk
                                   ELSE nextChunk,
                  !.player.score = @ + ChunkBonus]

\* Variant of processLifeLoss that leaves the player where it stands.
processLifeLossKeepsPosition(gs) ==
    [gs EXCEPT !.player.lives = Max(0, gs.player.lives - 1)]

processLifeLoss(gs) ==
    [gs EXCEPT !.player.lives = Max(0, gs.player.lives - 1),
               !.player.position = [x |-> 0, y |-> 0]]

\* Variant of checkGameOverConditions that ends the game as lost when one
\* life is left.
checkGameOverConditionsAtOneLife(gs) ==
    LET lost == gs.player.lives <= 1
        allChunksCompleted == \A i \in 1..Len(gs.chunks) : gs.chunks[i]
    IN [gs EXCEPT !.isGameOver = lost \/ allChunksCompleted,
                  !.gameResult = IF allChunksCompleted THEN "win"
                                 ELSE IF lost THEN "lose" ELSE "none"]

\* Variant of checkGameOverConditions that clears the pool snapshot of a
\* game that is over.
checkGameOverConditionsDropsSnapshot(gs) ==
    LET lost == gs.player.lives <= 0
        allChunksCompleted == \A i \in 1..Len(gs.chunks) : gs.chunks[i]
    IN [gs EXCEPT !.isGameOver = lost \/ allChunksCompleted,
                  !.gameResult = IF allChunksCompleted THEN "win"
                                 ELSE IF lost THEN "lose" ELSE "none",
                  !.rewardPool = IF lost \/ allChunksCompleted THEN Dec(0)
                                 ELSE @]

checkGameOverConditions(gs) ==
    LET lost == gs.player.lives <= 0
        allChunksCompleted == \A i \in 1..Len(gs.chunks) : gs.chunks[i]
    IN [gs EXCEPT !.isGameOver = lost \/ allChunksCompleted,
                  !.gameResult = IF allChunksCompleted THEN "win"
                                 ELSE IF lost THEN "lose" ELSE "none"]

\* What processAction returns; thrown is set when ethers.getAddress threw.
EngineResult(ok, err, thrown, gs) ==
    [success |-> ok, error |-> err, thrown |-> thrown, gameState |-> gs]

ActionTypes == {"move", "jump", "interact", "complete_chunk", "lose_life"}

applyAction(gs, action) ==
    CASE action.type = "move" ->
            processMovement(gs, action.direction,
                            OrDefault(action.distance, DefaultDistance))
      [] action.type = "jump" -> processJump(gs)
      [] action.type = "interact" ->
            processInteraction(gs, action.objectType,
                               OrDefault(action.value, DefaultValue))
      [] action.type = "complete_chunk" -> processChunkCompletion(gs)
      [] action.type = "lose_life" -> processLifeLoss(gs)
      [] OTHER -> gs

\* Variant of processAction without the isGameOver check.
processActionIgnoresGameOver(gameState, action, playerEoa) ==
    IF getAddressThrows(playerEoa)
    THEN EngineResult(FALSE, "bad address checksum", TRUE, NoGame)
    ELSE IF gameState.player.eoa # getAddress(playerEoa)
    THEN EngineResult(FALSE, "Not your game", FALSE, NoGame)
    ELSE IF action.type \notin ActionTypes
    THEN EngineResult(FALSE, "Invalid action type", FALSE, NoGame)
    ELSE EngineResult(TRUE, "", FALSE,
                      checkGameOverConditions(applyAction(gameState, action)))

\* Variant of processAction without the ownership check.
processActionAnyPlayer(gameState, action, playerEoa) ==
    IF getAddressThrows(playerEoa)
    THEN EngineResult(FALSE, "bad address checksum", TRUE, NoGame)
    ELSE IF gameState.isGameOver
    THEN EngineResult(FALSE, "Game is already over", FALSE, NoGame)
    ELSE IF action.type \notin ActionTypes
    THEN EngineResult(FALSE, "Invalid action type", FALSE, NoGame)
    ELSE EngineResult(TRUE, "", FALSE,
                      checkGameOverConditions(applyAction(gameState, action)))

processAction(gameState, action, playerEoa) ==
    IF getAddressThrows(playerEoa)
    THEN EngineResult(FALSE, "bad address checksum", TRUE, NoGame)
    ELSE IF gameState.isGameOver
    THEN EngineResult(FALSE, "Game is already over", FALSE, NoGame)
    ELSE IF gameState.player.eoa # getAddress(playerEoa)
    THEN EngineResult(FALSE, "Not your game", FALSE, NoGame)
    ELSE IF action.type \notin ActionTypes
    THEN EngineResult(FALSE, "Invalid action type", FALSE, NoGame)
    ELSE EngineResult(TRUE, "", FALSE,
                      checkGameOverConditions(applyAction(gameState, action)))

\* The object passed to processInteraction once it has returned: the copy
\* {...gameState} shares the player object, so score += value lands in it.
processInteractionInPlace(gs, objectType, value) ==
    processInteraction(gs, objectType, value)

\* The object passed to processChunkCompletion once it has returned: the
\* copy [...gameState.chunks] shares the chunk objects, so the flag of the
\* current chunk is set in it; currentChunk and player are left alone.
processChunkCompletionInPlace(gs) ==
    [gs EXCEPT !.chunks = [gs.chunks EXCEPT ![gs.currentChunk + 1] = TRUE]]

\* The object passed to processAction as gameState once the call has
\* returned.  processMovement, processJump, processLifeLoss and
\* checkGameOverConditions build new player, position and state objects, and
\* a rejected call returns before anything is written.
passedGameState(gameState, action, playerEoa) ==
    IF ~processAction(gameState, action, playerEoa).success
    THEN gameState
    ELSE CASE action.type = "interact" ->
                 processInteractionInPlace(gameState, action.objectType,
                                           OrDefault(action.value, DefaultValue))
           [] action.type = "complete_chunk" ->
                 processChunkCompletionInPlace(gameState)
           [] OTHER -> gameState

formatGameOverMessage(gs) ==
    [gameResult |-> gs.gameResult,
     playerScore |-> gs.player.score,
     rewardAmount |-> IF gs.gameResult = "win" THEN gs.rewardPool ELSE Dec(0),
     newPoolAmount |-> IF gs.gameResult = "win" THEN Dec(0)
                       ELSE toString(FAdd(parseFloat(gs.rewardPool),
                                          parseFloat(gs.entryDeposit)))]

-----------------------------------------------------------------------------
(* services/roomManager.js.  A registry is [rooms, addressToRoom]; every    *)
(* operation gives the registry it leaves and the value it returns.         *)

Registry(rs, idx) == [rooms |-> rs, addressToRoom |-> idx]

\* What a registry operation returns; thrown is set when ethers.getAddress
\* threw before anything else ran.
RoomResult(ok, err, thrown, roomId) ==
    [success |-> ok, error |-> err, thrown |-> thrown, roomId |-> roomId]

Out(reg, res) == [reg |-> reg, result |-> res]

NoAppId == 0

NewRoom(roomId, entryDeposit, difficulty, p) ==
    [id |-> roomId,
     player |-> [eoa |-> NoAddr, entryDeposit |-> entryDeposit],
     connections |-> EmptyMap,
     gameState |-> NoGame,
     isReady |-> FALSE,
     gameStarted |-> FALSE,
     difficulty |-> difficulty,
     rewardInfo |-> calculatePotentialReward(p, entryDeposit),
     appId |-> NoAppId]

createRoom(reg, roomId, entryDeposit, difficulty, p) ==
    Out(Registry(MapSet(reg.rooms, roomId,
                        NewRoom(roomId, entryDeposit, difficulty, getRewardPool(p))),
                 reg.addressToRoom),
        RoomResult(TRUE, "", FALSE, roomId))

\* What a successful joinRoom returns.
JoinResult(roomId, room) ==
    [success |-> TRUE, error |-> "", thrown |-> FALSE, roomId |-> roomId,
     role |-> "player", isRoomReady |-> TRUE,
     entryDeposit |-> room.player.entryDeposit, rewardInfo |-> room.rewardInfo]

\* Variant of joinRoom that looks the room up before it looks at addressToRoom.
joinRoomChecksRoomFirst(reg, roomId, eoa, ws) ==
    LET formattedEoa == getAddress(eoa)
        room == reg.rooms[roomId]
    IN IF getAddressThrows(eoa)
       THEN Out(reg, RoomResult(FALSE, "bad address checksum", TRUE, roomId))
       ELSE IF ~MapHas(reg.rooms, roomId)
       THEN Out(reg, RoomResult(FALSE, "Room not found", FALSE, roomId))
       ELSE IF room.player.eoa # NoAddr
       THEN Out(reg, RoomResult(FALSE, "Room is already occupied", FALSE, roomId))
       ELSE IF MapHas(reg.addressToRoom, formattedEoa)
       THEN Out(reg, RoomResult(FALSE, "Player already in another room", FALSE, roomId))
       ELSE IF ~validateEntryDeposit(room.player.entryDeposit)
       THEN Out(reg, RoomResult(FALSE, "Invalid entry deposit amount", FALSE, roomId))
       ELSE Out(Registry([reg.rooms EXCEPT
                            ![roomId].player.eoa = formattedEoa,
                            ![roomId].connections = MapSet(@, formattedEoa, ws),
                            ![roomId].isReady = TRUE],
                         MapSet(reg.addressToRoom, formattedEoa, roomId)),
                JoinResult(roomId, room))

\* Variant of joinRoom that binds the player and leaves isReady as it was.
joinRoomLeavesNotReady(reg, roomId, eoa, ws) ==
    LET formattedEoa == getAddress(eoa)
        room == reg.rooms[roomId]
    IN IF getAddressThrows(eoa)
       THEN Out(reg, RoomResult(FALSE, "bad address checksum", TRUE, roomId))
       ELSE IF MapHas(reg.addressToRoom, formattedEoa)
       THEN Out(reg, RoomResult(FALSE, "Player already in another room", FALSE, roomId))
       ELSE IF ~MapHas(reg.rooms, roomId)
       THEN Out(reg, RoomResult(FALSE, "Room not found", FALSE, roomId))
       ELSE IF room.player.eoa # NoAddr
       THEN Out(reg, RoomResult(FALSE, "Room is already occupied", FALSE, roomId))
       ELSE IF ~validateEntryDeposit(room.player.entryDeposit)
       THEN Out(reg, RoomResult(FALSE, "Invalid entry deposit amount", FALSE, roomId))
       ELSE Out(Registry([reg.rooms EXCEPT
                            ![roomId].player.eoa = formattedEoa,
                            ![roomId].connections = MapSet(@, formattedEoa, ws)],
                         MapSet(reg.addressToRoom, formattedEoa, roomId)),
                JoinResult(roomId, room))

\* Variant of joinRoom without the addressToRoom check.
joinRoomSkipsIndexCheck(reg, roomId, eoa, ws) ==
    LET formattedEoa == getAddress(eoa)
        room == reg.rooms[roomId]
    IN IF getAddressThrows(eoa)
       THEN Out(reg, RoomResult(FALSE, "bad address checksum", TRUE, roomId))
       ELSE IF ~MapHas(reg.rooms, roomId)
       THEN Out(reg, RoomResult(FALSE, "Room not found", FALSE, roomId))
       ELSE IF room.player.eoa # NoAddr
       THEN Out(reg, RoomResult(FALSE, "Room is already occupied", FALSE, roomId))
       ELSE IF ~validateEntryDeposit(room.player.entryDeposit)
       THEN Out(reg, RoomResult(FALSE, "Invalid entry deposit amount", FALSE, roomId))
       ELSE Out(Registry([reg.rooms EXCEPT
                            ![roomId].player.eoa = formattedEoa,
                            ![roomId].connections = MapSet(@, formattedEoa, ws),
                            ![roomId].isReady = TRUE],
                         MapSet(reg.addressToRoom, formattedEoa, roomId)),
                RoomResult(TRUE, "", FALSE, roomId))

\* Variant of joinRoom that uses the address as sent, without getAddress.
joinRoomKeysRawAddress(reg, roomId, eoa, ws) ==
    LET room == reg.rooms[roomId]
    IN IF getAddressThrows(eoa)
       THEN Out(reg, RoomResult(FALSE, "bad address checksum", TRUE, roomId))
       ELSE IF MapHas(reg.addressToRoom, eoa)
       THEN Out(reg, RoomResult(FALSE, "Player already in another room", FALSE, roomId))
       ELSE IF ~MapHas(reg.rooms, roomId)
       THEN Out(reg, RoomResult(FALSE, "Room not found", FALSE, roomId))
       ELSE IF room.player.eoa # NoAddr
       THEN Out(reg, RoomResult(FALSE, "Room is already occupied", FALSE, roomId))
       ELSE IF ~validateEntryDeposit(room.player.entryDeposit)
       THEN Out(reg, RoomResult(FALSE, "Invalid entry deposit amount", FALSE, roomId))
       ELSE Out(Registry([reg.rooms EXCEPT
                            ![roomId].player.eoa = eoa,
                            ![roomId].connections = MapSet(@, eoa, ws),
                            ![roomId].isReady = TRUE],
                         MapSet(reg.addressToRoom, eoa, roomId)),
                RoomResult(TRUE, "", FALSE, roomId))

joinRoom(reg, roomId, eoa, ws) ==
    LET formattedEoa == getAddress(eoa)
        room == reg.rooms[roomId]
    IN IF getAddressThrows(eoa)
       THEN Out(reg, RoomResult(FALSE, "bad address checksum", TRUE, roomId))
       ELSE IF MapHas(reg.addressToRoom, formattedEoa)
       THEN Out(reg, RoomResult(FALSE, "Player already in another room", FALSE, roomId))
       ELSE IF ~MapHas(reg.rooms, roomId)
       THEN Out(reg, RoomResult(FALSE, "Room not found", FALSE, roomId))
       ELSE IF room.player.eoa # NoAddr
       THEN Out(reg, RoomResult(FALSE, "Room is already occupied", FALSE, roomId))
       ELSE IF ~validateEntryDeposit(room.player.entryDeposit)
       THEN Out(reg, RoomResult(FALSE, "Invalid entry deposit amount", FALSE, roomId))
       ELSE Out(Registry([reg.rooms EXCEPT
                            ![roomId].player.eoa = formattedEoa,
                            ![roomId].connections = MapSet(@, formattedEoa, ws),
                            ![roomId].isReady = TRUE],
                         MapSet(reg.addressToRoom, formattedEoa, roomId)),
                JoinResult(roomId, room))

\* Variant of processPlayerAction that looks for the game state before it
\* looks for the requester among the room's connections.
processPlayerActionChecksGameFirst(reg, roomId, action, eoa) ==
    LET formattedEoa == getAddress(eoa)
        room == reg.rooms[roomId]
        result == processAction(room.gameState, action, formattedEoa)
    IN IF getAddressThrows(eoa)
       THEN Out(reg, RoomResult(FALSE, "bad address checksum", TRUE, roomId))
       ELSE IF ~MapHas(reg.rooms, roomId)
       THEN Out(reg, RoomResult(FALSE, "Room not found", FALSE, roomId))
       ELSE IF room.gameState = NoGame
       THEN Out(reg, RoomResult(FALSE, "Game has not started", FALSE, roomId))
       ELSE IF ~MapHas(room.connections, formattedEoa)
       THEN Out(reg, RoomResult(FALSE, "Player not in this room", FALSE, roomId))
       ELSE IF ~result.success
       THEN Out(reg, RoomResult(FALSE, result.error, FALSE, roomId))
       ELSE Out(Registry([reg.rooms EXCEPT ![roomId].gameState = result.gameState],
                         reg.addressToRoom),
                RoomResult(TRUE, "", FALSE, roomId))

\* Variant of processPlayerAction that stores what processAction returned
\* before it looks at success.
processPlayerActionStoresFirst(reg, roomId, action, eoa) ==
    LET formattedEoa == getAddress(eoa)
        room == reg.rooms[roomId]
        result == processAction(room.gameState, action, formattedEoa)
        stored == Registry([reg.rooms EXCEPT ![roomId].gameState = result.gameState],
                           reg.addressToRoom)
    IN IF getAddressThrows(eoa)
       THEN Out(reg, RoomResult(FALSE, "bad address checksum", TRUE, roomId))
       ELSE IF ~MapHas(reg.rooms, roomId)
       THEN Out(reg, RoomResult(FALSE, "Room not found", FALSE, roomId))
       ELSE IF ~MapHas(room.connections, formattedEoa)
       THEN Out(reg, RoomResult(FALSE, "Player not in this room", FALSE, roomId))
       ELSE IF room.gameState = NoGame
       THEN Out(reg, RoomResult(FALSE, "Game has not started", FALSE, roomId))
       ELSE IF ~result.success
       THEN Out(stored, RoomResult(FALSE, result.error, FALSE, roomId))
       ELSE Out(stored, RoomResult(TRUE, "", FALSE, roomId))

\* Variant of processPlayerAction that reports success without storing the
\* state processAction returned.
processPlayerActionDropsResult(reg, roomId, action, eoa) ==
    LET formattedEoa == getAddress(eoa)
        room == reg.rooms[roomId]
        result == processAction(room.gameState, action, formattedEoa)
    IN IF getAddressThrows(eoa)
       THEN Out(reg, RoomResult(FALSE, "bad address checksum", TRUE, roomId))
       ELSE IF ~MapHas(reg.rooms, roomId)
       THEN Out(reg, RoomResult(FALSE, "Room not found", FALSE, roomId))
       ELSE IF ~MapHas(room.connections, formattedEoa)
       THEN Out(reg, RoomResult(FALSE, "Player not in this room", FALSE, roomId))
       ELSE IF room.gameState = NoGame
       THEN Out(reg, RoomResult(FALSE, "Game has not started", FALSE, roomId))
       ELSE IF ~result.success
       THEN Out(reg, RoomResult(FALSE, result.error, FALSE, roomId))
       ELSE Out(reg, RoomResult(TRUE, "", FALSE, roomId))

processPlayerAction(reg, roomId, action, eoa) ==
    LET formattedEoa == getAddress(eoa)
        room == reg.rooms[roomId]
        result == processAction(room.gameState, action, formattedEoa)
    IN IF getAddressThrows(eoa)
       THEN Out(reg, RoomResult(FALSE, "bad address checksum", TRUE, roomId))
       ELSE IF ~MapHas(reg.rooms, roomId)
       THEN Out(reg, RoomResult(FALSE, "Room not found", FALSE, roomId))
       ELSE IF ~MapHas(room.connections, formattedEoa)
       THEN Out(reg, RoomResult(FALSE, "Player not in this room", FALSE, roomId))
       ELSE IF room.gameState = NoGame
       THEN Out(reg, RoomResult(FALSE, "Game has not started", FALSE, roomId))
       ELSE IF ~result.success
       THEN Out(reg, RoomResult(FALSE, result.error, FALSE, roomId))
       ELSE Out(Registry([reg.rooms EXCEPT ![roomId].gameState = result.gameState],
                         reg.addressToRoom),
                RoomResult(TRUE, "", FALSE, roomId))

\* Variant of leaveRoom that deletes the room and keeps the index entry.
leaveRoomKeepsIndex(reg, eoa) ==
    LET formattedEoa == getAddress(eoa)
        roomId == reg.addressToRoom[formattedEoa]
    IN IF getAddressThrows(eoa)
       THEN Out(reg, RoomResult(FALSE, "bad address checksum", TRUE, 0))
       ELSE IF ~MapHas(reg.addressToRoom, formattedEoa)
       THEN Out(reg, RoomResult(FALSE, "Player not in any room", FALSE, 0))
       ELSE Out(Registry(MapDel(reg.rooms, roomId), reg.addressToRoom),
                RoomResult(TRUE, "", FALSE, roomId))

leaveRoom(reg, eoa) ==
    LET formattedEoa == getAddress(eoa)
        roomId == reg.addressToRoom[formattedEoa]
    IN IF getAddressThrows(eoa)
       THEN Out(reg, RoomResult(FALSE, "bad address checksum", TRUE, 0))
       ELSE IF ~MapHas(reg.addressToRoom, formattedEoa)
       THEN Out(reg, RoomResult(FALSE, "Player not in any room", FALSE, 0))
       ELSE Out(Registry(IF MapHas(reg.rooms, roomId)
                         THEN MapDel(reg.rooms, roomId)
                         ELSE reg.rooms,
                         MapDel(reg.addressToRoom, formattedEoa)),
                RoomResult(TRUE, "", FALSE, roomId))

\* Variant of closeRoom that deletes the room and leaves addressToRoom alone.
closeRoomKeepsIndex(reg, roomId) ==
    IF ~MapHas(reg.rooms, roomId)
    THEN Out(reg, RoomResult(TRUE, "", FALSE, roomId))
    ELSE Out(Registry(MapDel(reg.rooms, roomId), reg.addressToRoom),
             RoomResult(TRUE, "", FALSE, roomId))

\* Variant of closeRoom that leaves alone a room whose game has started.
closeRoomSparesStarted(reg, roomId) ==
    IF ~MapHas(reg.rooms, roomId) \/ reg.rooms[roomId].gameStarted
    THEN Out(reg, RoomResult(TRUE, "", FALSE, roomId))
    ELSE Out(Registry(MapDel(reg.rooms, roomId),
                      [a \in (DOMAIN reg.addressToRoom)
                                \ (DOMAIN reg.rooms[roomId].connections)
                          |-> reg.addressToRoom[a]]),
             RoomResult(TRUE, "", FALSE, roomId))

closeRoom(reg, roomId) ==
    IF ~MapHas(reg.rooms, roomId)
    THEN Out(reg, RoomResult(TRUE, "", FALSE, roomId))
    ELSE Out(Registry(MapDel(reg.rooms, roomId),
                      [a \in (DOMAIN reg.addressToRoom)
                                \ (DOMAIN reg.rooms[roomId].connections)
                          |-> reg.addressToRoom[a]]),
             RoomResult(TRUE, "", FALSE, roomId))

-----------------------------------------------------------------------------
(* utils/validators.js: the synchronous segments of the handlers *)

\* Variant of handleStartGame without the gameStarted check, building the
\* game state anew on every start.
handleStartGameRestarts(reg, p, roomId, playerEoa) ==
    LET room == reg.rooms[roomId]
        currentPool == getRewardPool(p)
    IN IF ~MapHas(reg.rooms, roomId)
       THEN Out(reg, RoomResult(FALSE, "ROOM_NOT_FOUND", FALSE, roomId))
       ELSE IF room.player.eoa # playerEoa
       THEN Out(reg, RoomResult(FALSE, "NOT_AUTHORIZED", FALSE, roomId))
       ELSE Out(Registry([reg.rooms EXCEPT
                            ![roomId].gameState =
                                createGame(room.player.eoa,
                                           room.player.entryDeposit,
                                           currentPool.totalAmount),
                            ![roomId].gameStarted = TRUE],
                         reg.addressToRoom),
                RoomResult(TRUE, "", FALSE, roomId))

\* handleStartGame, from the room lookup to gameStarted = true.
\* Variant of handleStartGame that marks the game started without creating
\* its state.
handleStartGameKeepsNoGame(reg, p, roomId, playerEoa) ==
    LET room == reg.rooms[roomId]
    IN IF ~MapHas(reg.rooms, roomId)
       THEN Out(reg, RoomResult(FALSE, "ROOM_NOT_FOUND", FALSE, roomId))
       ELSE IF room.player.eoa # playerEoa
       THEN Out(reg, RoomResult(FALSE, "NOT_AUTHORIZED", FALSE, roomId))
       ELSE IF room.gameStarted
       THEN Out(reg, RoomResult(FALSE, "GAME_ALREADY_STARTED", FALSE, roomId))
       ELSE Out(Registry([reg.rooms EXCEPT ![roomId].gameStarted = TRUE],
                         reg.addressToRoom),
                RoomResult(TRUE, "", FALSE, roomId))

handleStartGame(reg, p, roomId, playerEoa) ==
    LET room == reg.rooms[roomId]
        currentPool == getRewardPool(p)
    IN IF ~MapHas(reg.rooms, roomId)
       THEN Out(reg, RoomResult(FALSE, "ROOM_NOT_FOUND", FALSE, roomId))
       ELSE IF room.player.eoa # playerEoa
       THEN Out(reg, RoomResult(FALSE, "NOT_AUTHORIZED", FALSE, roomId))
       ELSE IF room.gameStarted
       THEN Out(reg, RoomResult(FALSE, "GAME_ALREADY_STARTED", FALSE, roomId))
       ELSE Out(Registry([reg.rooms EXCEPT
                            ![roomId].gameState =
                                IF @ = NoGame
                                THEN createGame(room.player.eoa,
                                                room.player.entryDeposit,
                                                currentPool.totalAmount)
                                ELSE @,
                            ![roomId].gameStarted = TRUE],
                         reg.addressToRoom),
                RoomResult(TRUE, "", FALSE, roomId))

\* The ws -> address lookup both handlers start with: the first entry of the
\* connections map bound to this socket.
RECURSIVE FindPlayer(_, _)
FindPlayer(conns, ws) ==
    IF conns = <<>> THEN NoAddr
    ELSE IF Head(conns).ws = ws THEN Head(conns).eoa
    ELSE FindPlayer(Tail(conns), ws)

ConnHas(conns, eoa) == \E i \in 1..Len(conns) : conns[i].eoa = eoa

\* validateActionPayload: the action types, directions and object types the
\* handler lets through.
ValidDirections == {"left", "right", "up", "down"}
ValidObjectTypes == {"coin", "gem", "treasure", "powerup"}
validateActionPayload(action) ==
    /\ action.type \in ActionTypes
    /\ action.type = "move" => action.direction \in ValidDirections
    /\ action.type = "interact" => action.objectType \in ValidObjectTypes

\* The pool operation handleAction issues for a finished game.
LedgerEntry(roomId, op, res, before, after) ==
    [room |-> roomId, op |-> op, success |-> res.success, amount |-> res.amount,
     before |-> before, after |-> after]

\* Variant of the settlement that takes the pool total from the snapshot the
\* game state took when the game started.
settleUsesSnapshot(p, room, gameResult) ==
    IF gameResult = "win"
    THEN withdrawFromRewardPool([p EXCEPT !.totalAmount = room.gameState.rewardPool])
    ELSE addToRewardPool([p EXCEPT !.totalAmount = room.gameState.rewardPool],
                         room.player.entryDeposit)

\* Variant of the settlement that pays the entry deposit into the pool
\* whatever the result.
settleAlwaysDeposits(p, room, gameResult) ==
    addToRewardPool(p, room.player.entryDeposit)

settle(p, room, gameResult) ==
    IF gameResult = "win"
    THEN withdrawFromRewardPool(p)
    ELSE IF gameResult = "lose"
    THEN addToRewardPool(p, room.player.entryDeposit)
    ELSE [pool |-> p, result |-> PoolResult(FALSE, "", Undefined, Undefined)]

settleOp(gameResult) == IF gameResult = "win" THEN "withdraw" ELSE "deposit"

-----------------------------------------------------------------------------
(* Inputs *)

WsIds == {1, 2}
RoomIds == 1..MaxRooms

DefaultEntryDeposit == Dec(1)      \* '0.01'
DepositInputs == {Dec(5), Dec(-1), JunkText}
Amounts == {Dec(1), Dec(5), Dec(-1), JunkText}

\* The clients the handlers are driven by: a socket and the address string
\* it sends.  Socket 1 belongs to address 1, socket 2 to address 2.
Client(ws, eoa) == [ws |-> ws, eoa |-> eoa]
Clients == {Client(1, Addr(1, "checksum")), Client(1, Addr(1, "lower")),
            Client(1, Addr(1, "badmix")), Client(2, Addr(2, "checksum"))}

MoveRight == Action("move", "right", Opt(1), "", Absent)
MoveLeft == Action("move", "left", Absent, "", Absent)
Jump == Action("jump", "", Absent, "", Absent)
InteractCoin == Action("interact", "", Absent, "coin", Opt(10))
InteractRock == Action("interact", "", Absent, "rock", Absent)
CompleteChunk == Action("complete_chunk", "", Absent, "", Absent)
LoseLife == Action("lose_life", "", Absent, "", Absent)
Fly == Action("fly", "", Absent, "", Absent)

SoloActions == {CompleteChunk, LoseLife, InteractCoin, MoveRight, Fly}
ConcActions == {CompleteChunk, LoseLife}
ApiActions == {CompleteChunk, LoseLife, Fly}
AllActions == {MoveRight, MoveLeft, Jump, InteractCoin, InteractRock,
               CompleteChunk, LoseLife, Fly}

-----------------------------------------------------------------------------
(* State *)

Reg == Registry(rooms, addressToRoom)

\* The record of a call: the operation, whether it succeeded, its error, and
\* the amount a pool operation returned.
Call(op, ret) ==
    [op |-> op, success |-> ret.success, error |-> ret.error,
     amount |-> IF "amount" \in DOMAIN ret THEN ret.amount ELSE Undefined]

Msg(type, over, body) == [type |-> type, over |-> over, body |-> body]
NoBody == [none |-> TRUE]

Task(kind, roomId, result) ==
    [kind |-> kind, room |-> roomId, result |-> result, alloc |-> <<>>]

\* The finalAllocations array handleAction passes to closeAppSession.
finalAllocations(room, gameResult) ==
    IF gameResult = "win"
    THEN <<room.player.entryDeposit, Dec(0), Dec(0)>>
    ELSE <<Dec(0), room.player.entryDeposit, Dec(0)>>

\* The pending call closeAppSession(roomId, finalAllocations).
CloseTask(roomId, room, gameResult) ==
    [Task("close", roomId, gameResult) EXCEPT
        !.alloc = finalAllocations(room, gameResult)]

\* broadcastToRoom: the message reaches the room's connections, when the room
\* is still in the registry.
broadcastToRoom(rs, box, roomId, msg) ==
    IF MapHas(rs, roomId) /\ DOMAIN rs[roomId].connections # {}
    THEN [box EXCEPT ![roomId] = Append(@, msg)]
    ELSE box

Init ==
    /\ pool = InitialPool
    /\ rooms = EmptyMap
    /\ addressToRoom = EmptyMap
    /\ nextRoomId = 1
    /\ connections = <<>>
    /\ appSessions = {}
    /\ tasks = {}
    /\ ledger = <<>>
    /\ steps = [r \in RoomIds |-> 0]
    /\ outbox = [r \in RoomIds |-> <<>>]
    /\ lastCall = Call("init", RoomResult(TRUE, "", FALSE, 0))

registryVars == <<rooms, addressToRoom, nextRoomId>>
handlerVars == <<connections, appSessions, tasks, outbox>>

-----------------------------------------------------------------------------
(* The reward pool driven directly *)

AddToRewardPool(amount) ==
    LET o == addToRewardPool(pool, amount)
    IN /\ pool.totalGames < MaxPoolOps
       /\ pool' = o.pool
       /\ lastCall' = Call("addToRewardPool", o.result)
       /\ UNCHANGED <<registryVars, handlerVars, ledger, steps>>

WithdrawFromRewardPool ==
    LET o == withdrawFromRewardPool(pool)
    IN /\ pool.totalGames < MaxPoolOps
       /\ pool' = o.pool
       /\ lastCall' = Call("withdrawFromRewardPool", o.result)
       /\ UNCHANGED <<registryVars, handlerVars, ledger, steps>>

ResetRewardPool ==
    LET o == resetRewardPool(pool)
    IN /\ pool' = o.pool
       /\ lastCall' = Call("resetRewardPool", o.result)
       /\ UNCHANGED <<registryVars, handlerVars, ledger, steps>>

NextPool ==
    \/ \E amount \in Amounts : AddToRewardPool(amount)
    \/ WithdrawFromRewardPool
    \/ ResetRewardPool

SpecPool == Init /\ [][NextPool]_vars

-----------------------------------------------------------------------------
(* The room registry driven directly: createRoom, joinRoom,                 *)
(* processPlayerAction, leaveRoom and closeRoom as calls, and the start of  *)
(* a game by a given requester.                                             *)

SetReg(reg) ==
    /\ rooms' = reg.rooms
    /\ addressToRoom' = reg.addressToRoom

CreateRoom(entryDeposit) ==
    LET o == createRoom(Reg, nextRoomId, entryDeposit, "normal", pool)
    IN /\ nextRoomId <= MaxRooms
       /\ SetReg(o.reg)
       /\ nextRoomId' = nextRoomId + 1
       /\ lastCall' = Call("createRoom", o.result)
       /\ UNCHANGED <<pool, handlerVars, ledger, steps>>

JoinRoom(roomId, eoa, ws) ==
    LET o == joinRoom(Reg, roomId, eoa, ws)
    IN /\ SetReg(o.reg)
       /\ lastCall' = Call("joinRoom", o.result)
       /\ UNCHANGED <<pool, nextRoomId, handlerVars, ledger, steps>>

StartGame(roomId, playerEoa) ==
    LET o == handleStartGame(Reg, pool, roomId, playerEoa)
    IN /\ SetReg(o.reg)
       /\ lastCall' = Call("startGame", o.result)
       /\ UNCHANGED <<pool, nextRoomId, handlerVars, ledger, steps>>

ProcessPlayerAction(roomId, action, eoa) ==
    LET o == processPlayerAction(Reg, roomId, action, eoa)
    IN /\ SetReg(o.reg)
       /\ lastCall' = Call("processPlayerAction", o.result)
       /\ UNCHANGED <<pool, nextRoomId, handlerVars, ledger, steps>>

LeaveRoom(eoa) ==
    LET o == leaveRoom(Reg, eoa)
    IN /\ SetReg(o.reg)
       /\ lastCall' = Call("leaveRoom", o.result)
       /\ UNCHANGED <<pool, nextRoomId, handlerVars, ledger, steps>>

CloseRoom(roomId) ==
    LET o == closeRoom(Reg, roomId)
    IN /\ SetReg(o.reg)
       /\ lastCall' = Call("closeRoom", o.result)
       /\ UNCHANGED <<pool, nextRoomId, handlerVars, ledger, steps>>

ApiDeposits == {Dec(1), Dec(-1)}
ApiAddrs == {Addr(1, "checksum"), Addr(1, "lower"), Addr(1, "badmix"),
             Addr(2, "upper")}
ApiSockets == {1}

NextRegistry ==
    \/ \E d \in ApiDeposits : CreateRoom(d)
    \/ \E r \in RoomIds, a \in ApiAddrs, ws \in ApiSockets : JoinRoom(r, a, ws)
    \/ \E r \in RoomIds, i \in AddrIds : StartGame(r, Addr(i, "checksum"))
    \/ \E r \in RoomIds, act \in ApiActions, a \in ApiAddrs :
          ProcessPlayerAction(r, act, a)
    \/ \E a \in ApiAddrs : LeaveRoom(a)
    \/ \E r \in RoomIds : CloseRoom(r)

SpecRegistry == Init /\ [][NextRegistry]_vars

-----------------------------------------------------------------------------
(* The engine on its own: a freshly created game, and processAction applied *)
(* again and again to the state the previous call returned.                 *)

MoveDown == Action("move", "down", Opt(3), "", Absent)
MoveLeftTwo == Action("move", "left", Opt(2), "", Absent)
InteractGem == Action("interact", "", Absent, "gem", Opt(3))

\* The actions and the claimed identities the engine is driven with.
EngineActions == {MoveRight, MoveDown, MoveLeftTwo, Jump, InteractCoin,
                  InteractGem, InteractRock, CompleteChunk, LoseLife, Fly}
EnginePlayers == {Addr(1, "checksum"), Addr(1, "lower"), Addr(2, "upper")}

\* The inputs a single processAction call is examined on.
Distances == {Absent, Opt(1), Opt(2), Opt(5)}
Values == {Absent, Opt(0), Opt(3), Opt(10)}
MoveInputs == {Action("move", d, n, "", Absent) : d \in ValidDirections,
                                                  n \in Distances}
InteractInputs == {Action("interact", "", Absent, o, v) :
                      o \in ValidObjectTypes \cup {"rock"}, v \in Values}
EngineInputs ==
    MoveInputs \cup InteractInputs \cup {Jump, CompleteChunk, LoseLife, Fly}

\* Room 1 with a game just created for its occupant.
StartedRegistry(entryDeposit) ==
    LET created == createRoom(Registry(EmptyMap, EmptyMap), 1, entryDeposit,
                              "normal", InitialPool).reg
        joined == joinRoom(created, 1, Addr(1, "lower"), 1).reg
    IN handleStartGame(joined, InitialPool, 1, Addr(1, "checksum")).reg

InitEngine ==
    /\ \E d \in {Dec(1), Dec(5)} :
          /\ rooms = StartedRegistry(d).rooms
          /\ addressToRoom = StartedRegistry(d).addressToRoom
    /\ pool = InitialPool
    /\ nextRoomId = 2
    /\ connections = <<>>
    /\ appSessions = {}
    /\ tasks = {}
    /\ ledger = <<>>
    /\ steps = [r \in RoomIds |-> 0]
    /\ outbox = [r \in RoomIds |-> <<>>]
    /\ lastCall = Call("createGame", RoomResult(TRUE, "", FALSE, 1))

\* result = processAction(state, action, playerEoa); on success the caller
\* carries on with result.gameState.
EngineStep(action, playerEoa) ==
    LET result == processAction(rooms[1].gameState, action, playerEoa)
    IN /\ result.success => steps[1] < MaxEngineSteps
       /\ rooms' = IF result.success
                   THEN [rooms EXCEPT ![1].gameState = result.gameState]
                   ELSE rooms
       /\ steps' = IF result.success THEN [steps EXCEPT ![1] = @ + 1] ELSE steps
       /\ lastCall' = Call("processAction", result)
       /\ UNCHANGED <<pool, addressToRoom, nextRoomId, handlerVars, ledger>>

NextEngine == \E act \in EngineActions, a \in EnginePlayers : EngineStep(act, a)

SpecEngine == InitEngine /\ [][NextEngine]_vars

\* processAction is exported and takes whatever game state its caller holds:
\* here the first call is made on any state of the given shape that is not
\* marked over, owned by the occupant of room 1.
AnyGameStates ==
    {[createGame(Addr(1, "checksum"), Dec(1), Dec(0))
        EXCEPT !.player.lives = l, !.chunks = c, !.currentChunk = k] :
        l \in 0..InitialLives,
        c \in [1..NumChunks -> BOOLEAN],
        k \in 0..(NumChunks - 1)}

InitAnyGame ==
    /\ \E gs \in AnyGameStates :
          rooms = [StartedRegistry(Dec(1)).rooms EXCEPT ![1].gameState = gs]
    /\ addressToRoom = StartedRegistry(Dec(1)).addressToRoom
    /\ pool = InitialPool
    /\ nextRoomId = 2
    /\ connections = <<>>
    /\ appSessions = {}
    /\ tasks = {}
    /\ ledger = <<>>
    /\ steps = [r \in RoomIds |-> 0]
    /\ outbox = [r \in RoomIds |-> <<>>]
    /\ lastCall = Call("createGame", RoomResult(TRUE, "", FALSE, 1))

SpecAnyGame == InitAnyGame /\ [][NextEngine]_vars

-----------------------------------------------------------------------------
(* The handlers.  Each action is one synchronous segment: up to the first   *)
(* await, or from the return of the awaited call to the end.                *)

ReadyMsg == Msg("room:ready", FALSE, NoBody)
StartedMsg == Msg("game:started", FALSE, NoBody)
StateMsg(gs) == Msg("room:state", gs.isGameOver, NoBody)

\* handleJoinRoom without a roomId: createRoom, then joinRoom on the new room.
HandleJoinRoomCreate(ws, eoa, depositInput, limit) ==
    LET entryDeposit == IF depositInput = Undefined THEN DefaultEntryDeposit
                        ELSE depositInput
        c == createRoom(Reg, nextRoomId, entryDeposit, "normal", pool)
        j == joinRoom(c.reg, nextRoomId, eoa, ws)
    IN /\ nextRoomId <= limit
       /\ IF ConnHas(connections, eoa)
          THEN UNCHANGED <<registryVars, connections, outbox>>
          ELSE /\ SetReg(j.reg)
               /\ nextRoomId' = nextRoomId + 1
               /\ connections' =
                     IF j.result.success
                     THEN Append(connections,
                                 [eoa |-> eoa, ws |-> ws, roomId |-> nextRoomId])
                     ELSE connections
               /\ outbox' = IF j.result.success
                            THEN broadcastToRoom(j.reg.rooms, outbox, nextRoomId,
                                                 ReadyMsg)
                            ELSE outbox
       /\ UNCHANGED <<pool, appSessions, tasks, ledger, steps, lastCall>>

\* handleJoinRoom with a roomId.
HandleJoinRoomExisting(ws, eoa, roomId) ==
    LET j == joinRoom(Reg, roomId, eoa, ws)
    IN /\ IF ConnHas(connections, eoa)
          THEN UNCHANGED <<registryVars, connections, outbox>>
          ELSE /\ SetReg(j.reg)
               /\ UNCHANGED nextRoomId
               /\ connections' =
                     IF j.result.success
                     THEN Append(connections,
                                 [eoa |-> eoa, ws |-> ws, roomId |-> roomId])
                     ELSE connections
               /\ outbox' = IF j.result.success
                            THEN broadcastToRoom(j.reg.rooms, outbox, roomId,
                                                 ReadyMsg)
                            ELSE outbox
       /\ UNCHANGED <<pool, appSessions, tasks, ledger, steps, lastCall>>

\* The two broadcasts that end handleStartGame.
startBroadcasts(rs, box, roomId) ==
    IF MapHas(rs, roomId)
    THEN broadcastToRoom(rs, broadcastToRoom(rs, box, roomId, StartedMsg),
                         roomId, StateMsg(rs[roomId].gameState))
    ELSE box

\* handleStartGame up to `await createAppSession`, or to its end when the
\* room already has a session.
HandleStartGame(ws, roomId) ==
    LET playerEoa == FindPlayer(connections, ws)
        o == handleStartGame(Reg, pool, roomId, playerEoa)
    IN /\ playerEoa # NoAddr
       /\ SetReg(o.reg)
       /\ IF ~o.result.success
          THEN UNCHANGED <<tasks, outbox>>
          ELSE IF roomId \notin appSessions
          THEN /\ tasks' = tasks \cup {Task("open", roomId, "none")}
               /\ UNCHANGED outbox
          ELSE /\ outbox' = startBroadcasts(o.reg.rooms, outbox, roomId)
               /\ UNCHANGED tasks
       /\ UNCHANGED <<pool, nextRoomId, connections, appSessions, ledger,
                      steps, lastCall>>

\* createAppSession returns (ok) or throws: the rest of handleStartGame.
OpenSessionReturns(roomId, ok) ==
    /\ Task("open", roomId, "none") \in tasks
    /\ tasks' = tasks \ {Task("open", roomId, "none")}
    /\ appSessions' = IF ok THEN appSessions \cup {roomId} ELSE appSessions
    /\ rooms' = IF ok /\ MapHas(rooms, roomId)
                THEN [rooms EXCEPT ![roomId].appId = roomId]
                ELSE rooms
    /\ outbox' = startBroadcasts(rooms', outbox, roomId)
    /\ UNCHANGED <<pool, addressToRoom, nextRoomId, connections, ledger, steps,
                   lastCall>>

GameOverMsg(gs, res) ==
    LET m == formatGameOverMessage(gs)
    IN Msg("game:over", TRUE,
           IF gs.gameResult = "win" /\ res.success
           THEN [m EXCEPT !.rewardAmount = res.amount]
           ELSE m)

\* Variant of handleAction that calls closeAppSession on a finished game
\* without having settled it with the pool.
HandleActionClosesFirst(ws, roomId, action, budget) ==
    LET playerEoa == FindPlayer(connections, ws)
        o == processPlayerAction(Reg, roomId, action, playerEoa)
        room == o.reg.rooms[roomId]
        gs == room.gameState
        box1 == broadcastToRoom(o.reg.rooms, outbox, roomId, StateMsg(gs))
    IN /\ validateActionPayload(action)
       /\ playerEoa # NoAddr
       /\ (o.result.success /\ ~rooms[roomId].gameState.isGameOver) =>
             steps[roomId] < budget
       /\ SetReg(o.reg)
       /\ IF ~o.result.success
          THEN UNCHANGED <<tasks, steps, outbox>>
          ELSE /\ steps' = [steps EXCEPT ![roomId] = @ + 1]
               /\ outbox' = box1
               /\ IF ~gs.isGameOver
                  THEN UNCHANGED tasks
                  ELSE tasks' = tasks \cup
                          {IF room.appId # NoAppId \/ roomId \in appSessions
                           THEN CloseTask(roomId, room, gs.gameResult)
                           ELSE Task("timer", roomId, "none")}
       /\ UNCHANGED <<pool, ledger, nextRoomId, connections, appSessions,
                      lastCall>>

\* handleAction up to `await closeAppSession`, or to setTimeout when there is
\* no session to close.
HandleAction(ws, roomId, action, budget) ==
    LET playerEoa == FindPlayer(connections, ws)
        o == processPlayerAction(Reg, roomId, action, playerEoa)
        room == o.reg.rooms[roomId]
        gs == room.gameState
        s == settle(pool, room, gs.gameResult)
        box1 == broadcastToRoom(o.reg.rooms, outbox, roomId, StateMsg(gs))
    IN /\ validateActionPayload(action)
       /\ playerEoa # NoAddr
       /\ (o.result.success /\ ~rooms[roomId].gameState.isGameOver) =>
             steps[roomId] < budget
       /\ SetReg(o.reg)
       /\ IF ~o.result.success
          THEN UNCHANGED <<pool, tasks, ledger, steps, outbox>>
          ELSE /\ steps' = [steps EXCEPT ![roomId] = @ + 1]
               /\ IF ~gs.isGameOver
                  THEN /\ outbox' = box1
                       /\ UNCHANGED <<pool, tasks, ledger>>
                  ELSE /\ pool' = s.pool
                       /\ ledger' = Append(ledger,
                             LedgerEntry(roomId, settleOp(gs.gameResult), s.result,
                                         pool.totalAmount, s.pool.totalAmount))
                       /\ outbox' = broadcastToRoom(o.reg.rooms, box1, roomId,
                                                    GameOverMsg(gs, s.result))
                       /\ tasks' = tasks \cup
                             {IF room.appId # NoAppId \/ roomId \in appSessions
                              THEN CloseTask(roomId, room, gs.gameResult)
                              ELSE Task("timer", roomId, "none")}
       /\ UNCHANGED <<nextRoomId, connections, appSessions, lastCall>>

\* closeAppSession returns (ok) or throws: handleAction arms the timer.
CloseSessionReturns(roomId, ok) ==
    \E t \in tasks :
       /\ t.kind = "close" /\ t.room = roomId
       /\ tasks' = (tasks \ {t}) \cup {Task("timer", roomId, "none")}
       /\ appSessions' = IF ok THEN appSessions \ {roomId} ELSE appSessions
       /\ UNCHANGED <<pool, registryVars, connections, ledger, steps, outbox,
                      lastCall>>

\* Variant of the timer callback that tears the room down only when its
\* session has been closed.
TimerFiresWhenClosed(roomId) ==
    LET o == closeRoom(Reg, roomId)
    IN /\ Task("timer", roomId, "none") \in tasks
       /\ tasks' = tasks \ {Task("timer", roomId, "none")}
       /\ IF roomId \in appSessions THEN UNCHANGED <<rooms, addressToRoom>>
          ELSE SetReg(o.reg)
       /\ UNCHANGED <<pool, nextRoomId, connections, appSessions, ledger, steps,
                      outbox, lastCall>>

\* The timer set by handleAction fires: closeRoom.
TimerFires(roomId) ==
    LET o == closeRoom(Reg, roomId)
    IN /\ Task("timer", roomId, "none") \in tasks
       /\ tasks' = tasks \ {Task("timer", roomId, "none")}
       /\ SetReg(o.reg)
       /\ UNCHANGED <<pool, nextRoomId, connections, appSessions, ledger, steps,
                      outbox, lastCall>>

\* The socket closes: leaveRoom for every address bound to it, and the
\* connections entries go.
RECURSIVE leaveAll(_, _, _)
leaveAll(reg, conns, ws) ==
    IF conns = <<>> THEN reg
    ELSE leaveAll(IF Head(conns).ws = ws THEN leaveRoom(reg, Head(conns).eoa).reg
                  ELSE reg,
                  Tail(conns), ws)

Disconnect(ws) ==
    /\ \E i \in 1..Len(connections) : connections[i].ws = ws
    /\ SetReg(leaveAll(Reg, connections, ws))
    /\ connections' = SelectSeq(connections, LAMBDA c : c.ws # ws)
    /\ UNCHANGED <<pool, nextRoomId, appSessions, tasks, ledger, steps, outbox,
                   lastCall>>

\* The handlers driven by a set of clients that create at most `limit` rooms.
Handlers(clients, deposits, actions, limit, budget) ==
    \/ \E c \in clients, d \in deposits :
          HandleJoinRoomCreate(c.ws, c.eoa, d, limit)
    \/ \E c \in clients, r \in RoomIds :
          HandleJoinRoomExisting(c.ws, c.eoa, r)
    \/ \E ws \in WsIds, r \in RoomIds : HandleStartGame(ws, r)
    \/ \E r \in RoomIds, ok \in BOOLEAN : OpenSessionReturns(r, ok)
    \/ \E ws \in WsIds, r \in RoomIds, act \in actions :
          HandleAction(ws, r, act, budget)
    \/ \E r \in RoomIds, ok \in BOOLEAN : CloseSessionReturns(r, ok)
    \/ \E r \in RoomIds : TimerFires(r)
    \/ \E ws \in WsIds : Disconnect(ws)

\* One room at a time, every kind of client and deposit.
Next == Handlers(Clients, DepositInputs, SoloActions, SoloRooms, MaxActions)

Spec == Init /\ [][Next]_vars

\* The handlers with the event loop's guarantees: an awaited closeAppSession
\* that settles (resolves or rejects) resumes handleAction, and a timer that
\* has been set fires.
Fairness ==
    \A r \in RoomIds :
       /\ WF_vars(\E ok \in BOOLEAN : CloseSessionReturns(r, ok))
       /\ WF_vars(TimerFires(r))

\* One client with a well-formed address, playing one game after another.
LiveClients == {Client(1, Addr(1, "checksum"))}
LiveDeposits == {Dec(5)}
LiveActions == {CompleteChunk, LoseLife}

NextLive ==
    Handlers(LiveClients, LiveDeposits, LiveActions, SoloRooms, MaxActions)

SpecLive == Init /\ [][NextLive]_vars /\ Fairness

\* Two clients with well-formed addresses, each playing its own room.
ConcClients == {Client(1, Addr(1, "checksum")), Client(2, Addr(2, "checksum"))}
ConcDeposits == {Dec(5)}

NextConc == Handlers(ConcClients, ConcDeposits, ConcActions, MaxRooms, MaxConcActions)

SpecConc == Init /\ [][NextConc]_vars

\* The server after an earlier game, lost with a deposit of 0.05, whose room
\* has been closed and whose player has gone: the pool holds that deposit,
\* and the registry and the connections are empty again.  The earlier room
\* appears in the ledger as room 0.
EarlierLoss == addToRewardPool(InitialPool, Dec(5))

InitFunded ==
    /\ pool = EarlierLoss.pool
    /\ rooms = EmptyMap
    /\ addressToRoom = EmptyMap
    /\ nextRoomId = 1
    /\ connections = <<>>
    /\ appSessions = {}
    /\ tasks = {}
    /\ ledger = <<LedgerEntry(0, "deposit", EarlierLoss.result,
                              InitialPool.totalAmount,
                              EarlierLoss.pool.totalAmount)>>
    /\ steps = [r \in RoomIds |-> 0]
    /\ outbox = [r \in RoomIds |-> <<>>]
    /\ lastCall = Call("init", RoomResult(TRUE, "", FALSE, 0))

\* Two rooms played side by side on a pool that is not empty.
SpecFunded == InitFunded /\ [][NextConc]_vars

-----------------------------------------------------------------------------
(* Properties *)

\* The ledger entries of one room.
EntriesOf(r) == SelectSeq(ledger, LAMBDA e : e.room = r)

GameOver(r) ==
    /\ MapHas(rooms, r)
    /\ rooms[r].gameState # NoGame
    /\ rooms[r].gameState.isGameOver

\* C1 as stated: every finished game has applied exactly one pool mutation, a
\* deposit for a loss and a withdraw for a win.
C1_OneMutationPerGame ==
    \A r \in RoomIds :
       GameOver(r) =>
          /\ Len(EntriesOf(r)) = 1
          /\ EntriesOf(r)[1].success
          /\ EntriesOf(r)[1].op = settleOp(rooms[r].gameState.gameResult)

\* C1 amended: every finished game has issued exactly one pool operation (a
\* deposit for a loss, a withdraw for a win), no room ever issues a second one
\* whatever follows, and the operation changes the pool unless it is a
\* withdraw against an empty pool, which fails and leaves the pool as it was.
C1_OneSettlementPerGame ==
    \A r \in RoomIds :
       /\ Len(EntriesOf(r)) <= 1
       /\ GameOver(r) =>
             /\ Len(EntriesOf(r)) = 1
             /\ EntriesOf(r)[1].op = settleOp(rooms[r].gameState.gameResult)
       /\ \A i \in 1..Len(EntriesOf(r)) :
             LET e == EntriesOf(r)[i]
             IN IF e.op = "withdraw" /\ FEq0(parseFloat(e.before))
                THEN ~e.success /\ e.after = e.before
                ELSE e.success

\* A room lost, a second room then won the pool, and the first room has been
\* closed by its timer: one entry each.
C1_Witness ==
    /\ Len(ledger) = 2
    /\ ledger[1].op = "deposit" /\ ledger[2].op = "withdraw"
    /\ ledger[2].success
    /\ ~MapHas(rooms, ledger[1].room)
    /\ GameOver(ledger[2].room)

\* C2: totalGames = totalWins + totalLosses in every state, and no counter
\* decreases in a step that is not a reset.
C2_CountersInv == pool.totalGames = pool.totalWins + pool.totalLosses

C2_CountersStep ==
    lastCall'.op # "resetRewardPool" =>
       /\ pool'.totalGames >= pool.totalGames
       /\ pool'.totalWins >= pool.totalWins
       /\ pool'.totalLosses >= pool.totalLosses

C2_Counters == [](C2_CountersInv) /\ [][C2_CountersStep]_vars

\* Losses and a win are counted, and the last withdraw failed on the empty pool.
C2_Witness ==
    /\ pool.totalLosses >= 2 /\ pool.totalWins >= 1
    /\ lastCall.op = "withdrawFromRewardPool" /\ ~lastCall.success

\* C3: every identity in the address index maps to a room that exists and
\* whose occupant is that identity; a step that removes a room leaves no index
\* entry pointing at it.
C3_IndexInv ==
    \A a \in DOMAIN addressToRoom :
       /\ MapHas(rooms, addressToRoom[a])
       /\ rooms[addressToRoom[a]].player.eoa = a

C3_RemovalStep ==
    \A r \in DOMAIN rooms \ DOMAIN rooms' :
       \A a \in DOMAIN addressToRoom' : addressToRoom'[a] # r

C3_IndexConsistent == [](C3_IndexInv) /\ [][C3_RemovalStep]_vars

\* An occupied room has just been closed while another identity stays indexed.
C3_Witness ==
    /\ lastCall.op = "closeRoom"
    /\ Cardinality(DOMAIN rooms) = 1
    /\ Cardinality(DOMAIN addressToRoom) = 1
    /\ nextRoomId = 3
    /\ \E r \in DOMAIN rooms : rooms[r].gameState # NoGame

\* The requesters whose address string the address library accepts.
Requesters == {a \in AllAddrs : ~getAddressThrows(a)}

\* C4: once a game is over, processAction rejects every action kind from every
\* requester with the game-over error, and the game state of the room no
\* longer changes.
C4_RejectedInv ==
    \A r \in DOMAIN rooms :
       GameOver(r) =>
          \A act \in AllActions, a \in Requesters :
             /\ ~processAction(rooms[r].gameState, act, a).success
             /\ processAction(rooms[r].gameState, act, a).error = "Game is already over"
             /\ processPlayerAction(Reg, r, act, a).reg = Reg

C4_FrozenStep ==
    \A r \in DOMAIN rooms :
       (GameOver(r) /\ MapHas(rooms', r)) => rooms'[r].gameState = rooms[r].gameState

C4_GameOverIsFinal == [](C4_RejectedInv) /\ [][C4_FrozenStep]_vars

\* An action has just been rejected on a finished game.
C4_Witness ==
    /\ lastCall.op = "processPlayerAction"
    /\ lastCall.error = "Game is already over"
    /\ \E r \in DOMAIN rooms : GameOver(r)

\* C6: a join by an identity that is already in a room, against any other
\* room, fails with the already-in-room error and changes neither the index
\* nor any room.
C6_SecondJoinRejected ==
    \A a \in Requesters, r \in RoomIds, ws \in WsIds :
       (MapHas(addressToRoom, getAddress(a)) /\ addressToRoom[getAddress(a)] # r) =>
          LET joined == joinRoom(Reg, r, a, ws)
          IN /\ ~joined.result.success
             /\ joined.result.error = "Player already in another room"
             /\ joined.reg = Reg

\* An identity is in one room, another room is unoccupied, and the join that
\* was just made failed with the already-in-room error.
C6_Witness ==
    /\ lastCall.op = "joinRoom"
    /\ lastCall.error = "Player already in another room"
    /\ \E a \in DOMAIN addressToRoom, r \in DOMAIN rooms, ws \in ApiSockets :
          /\ addressToRoom[a] # r
          /\ rooms[r].player.eoa = NoAddr
          /\ joinRoom(Reg, r, a, ws).result.error = lastCall.error

\* C7: the differently-cased forms of one address are one player: while one
\* form is in a room, a join under any form fails as already-in-room, and
\* processPlayerAction and leaveRoom under any form act on that same room.
C7_OnePlayerPerAddress ==
    \A i \in AddrIds :
       MapHas(addressToRoom, Addr(i, "checksum")) =>
          LET own == addressToRoom[Addr(i, "checksum")]
          IN /\ \A f \in GoodForms :
                   LET left == leaveRoom(Reg, Addr(i, f))
                   IN /\ \A r \in RoomIds, ws \in ApiSockets :
                            joinRoom(Reg, r, Addr(i, f), ws).result.error =
                               "Player already in another room"
                      /\ left.result.success
                      /\ left.result.roomId = own
                      /\ ~MapHas(left.reg.rooms, own)
             /\ \A act \in AllActions :
                   LET canonical == processPlayerAction(Reg, own, act,
                                                        Addr(i, "checksum"))
                   IN /\ canonical.result.error \notin
                            {"Player not in this room", "Not your game"}
                      /\ \A f \in GoodForms :
                            processPlayerAction(Reg, own, act, Addr(i, f)) = canonical

\* An identity that is in a started game; the last call acted on the room, and
\* the lower-case and the checksum form both act on it.
C7_Witness ==
    /\ lastCall.op = "processPlayerAction"
    /\ lastCall.success
    /\ \E r \in DOMAIN rooms :
          /\ rooms[r].player.eoa = Addr(1, "checksum")
          /\ processPlayerAction(Reg, r, LoseLife, Addr(1, "lower")).result.success
          /\ processPlayerAction(Reg, r, LoseLife, Addr(1, "checksum")).result.success
          /\ leaveRoom(Reg, Addr(1, "upper")).result.roomId = r

\* C8: a withdraw from a pool holding funds returns the whole total, sets the
\* total to zero, adds one to totalWins and totalGames and leaves totalLosses.
C8_WithdrawStep ==
    (lastCall'.op = "withdrawFromRewardPool" /\ FGt0(parseFloat(pool.totalAmount))) =>
       /\ lastCall'.success
       /\ lastCall'.amount = pool.totalAmount
       /\ pool'.totalAmount = Dec(0)
       /\ pool'.totalWins = pool.totalWins + 1
       /\ pool'.totalGames = pool.totalGames + 1
       /\ pool'.totalLosses = pool.totalLosses

C8_WithdrawTakesAll == [][C8_WithdrawStep]_vars

\* Two deposits have been withdrawn in one withdraw.
C8_Witness ==
    /\ lastCall.op = "withdrawFromRewardPool"
    /\ lastCall.success
    /\ lastCall.amount = Dec(6)
    /\ pool.totalLosses = 2 /\ pool.totalWins = 1

\* C9: a withdraw from an empty pool fails with the empty-pool error, returns
\* a withdrawn amount of zero and leaves the four pool fields unchanged.
C9_EmptyWithdrawStep ==
    (lastCall'.op = "withdrawFromRewardPool" /\ FEq0(parseFloat(pool.totalAmount))) =>
       /\ ~lastCall'.success
       /\ lastCall'.error = "No funds available in reward pool"
       /\ lastCall'.amount = Dec(0)
       /\ pool' = pool

C9_EmptyWithdrawFails == [][C9_EmptyWithdrawStep]_vars

\* A withdraw has just failed on a pool emptied by an earlier win.
C9_Witness ==
    /\ lastCall.op = "withdrawFromRewardPool"
    /\ lastCall.error = "No funds available in reward pool"
    /\ pool.totalWins = 1 /\ pool.totalLosses = 1
    /\ pool.totalAmount = Dec(0)

\* The pool after the settlements of a log applied one after another to the
\* initial pool.
RECURSIVE SerialPool(_)
SerialPool(log) ==
    IF log = <<>> THEN InitialPool
    ELSE LET p == SerialPool(SubSeq(log, 1, Len(log) - 1))
             e == log[Len(log)]
             total == parseFloat(p.totalAmount)
         IN IF e.op = "deposit"
            THEN [totalAmount |-> toString(FAdd(total, parseFloat(e.amount))),
                  totalGames |-> p.totalGames + 1,
                  totalWins |-> p.totalWins,
                  totalLosses |-> p.totalLosses + 1]
            ELSE IF FLe0(total) THEN p
            ELSE [totalAmount |-> Dec(0),
                  totalGames |-> p.totalGames + 1,
                  totalWins |-> p.totalWins + 1,
                  totalLosses |-> p.totalLosses]

\* C5: when several rooms reach a terminal state in any interleaving, the pool
\* is what the serial application of their settlements in ledger order gives:
\* every deposit is in the total or in the one withdraw that took it, and a
\* withdraw takes exactly the total the settlements before it had left.
C5_SerialSettlement ==
    /\ pool = SerialPool(ledger)
    /\ \A i \in 1..Len(ledger) :
          LET before == SerialPool(SubSeq(ledger, 1, i - 1))
              e == ledger[i]
          IN /\ e.before = before.totalAmount
             /\ e.after = SerialPool(SubSeq(ledger, 1, i)).totalAmount
             /\ e.op = "withdraw" =>
                   e.amount = IF e.success THEN before.totalAmount ELSE Dec(0)

\* Two rooms were playing at the same time; one lost, and the other then won
\* the deposit that was made after its own game had started.
C5_Witness ==
    /\ Len(ledger) = 2
    /\ ledger[1].room # ledger[2].room
    /\ ledger[1].op = "deposit" /\ ledger[1].amount = Dec(5)
    /\ ledger[2].op = "withdraw" /\ ledger[2].amount = Dec(5)
    /\ GameOver(ledger[2].room)
    /\ rooms[ledger[2].room].gameState.rewardPool = Dec(0)
    /\ pool.totalAmount = Dec(0)

\* C10 as stated: the pool total is a non-negative number in every state.
C10_TotalNonNegative ==
    /\ ~parseFloat(pool.totalAmount).nan
    /\ parseFloat(pool.totalAmount).v >= 0

\* C10, the total changes only by a loss settlement that adds the room's entry
\* deposit or by a win settlement that sets it to zero.
C10_TotalChangeStep ==
    pool'.totalAmount # pool.totalAmount =>
       /\ Len(ledger') = Len(ledger) + 1
       /\ LET e == ledger'[Len(ledger')]
          IN \/ e.op = "deposit" /\ pool'.totalLosses = pool.totalLosses + 1
             \/ e.op = "withdraw" /\ pool'.totalAmount = Dec(0)

C10_TotalChanges == [][C10_TotalChangeStep]_vars

\* A room created with a deposit that is not a number has been lost.
C10_Witness ==
    /\ Len(ledger) = 1
    /\ ledger[1].op = "deposit"
    /\ ledger[1].amount = JunkText
    /\ pool.totalAmount = NaNText

\* C11: joinRoom reports its failures in a fixed order: already-in-room when
\* the identity is indexed, whatever the room id; else room-not-found when the
\* room id is absent; else room-occupied when the room has an occupant; and it
\* succeeds only when none of the three holds.
C11_JoinFailureOrder ==
    \A a \in Requesters, r \in RoomIds, ws \in ApiSockets :
       LET j == joinRoom(Reg, r, a, ws).result
           indexed == MapHas(addressToRoom, getAddress(a))
           absent == ~MapHas(rooms, r)
           occupied == ~absent /\ rooms[r].player.eoa # NoAddr
       IN /\ indexed => (~j.success /\ j.error = "Player already in another room")
          /\ (~indexed /\ absent) => (~j.success /\ j.error = "Room not found")
          /\ (~indexed /\ occupied) =>
                (~j.success /\ j.error = "Room is already occupied")
          /\ j.success => (~indexed /\ ~absent /\ ~occupied)

\* An indexed identity faces an occupied room and an absent room id, and the
\* join it has just made was answered already-in-room.
C11_Witness ==
    /\ lastCall.op = "joinRoom"
    /\ lastCall.error = "Player already in another room"
    /\ \E a \in DOMAIN addressToRoom, r \in DOMAIN rooms, q \in 1..(MaxRooms + 1) :
          /\ addressToRoom[a] # r
          /\ rooms[r].player.eoa \notin {NoAddr, a}
          /\ ~MapHas(rooms, q)
          /\ \A ws \in ApiSockets :
                /\ joinRoom(Reg, r, a, ws).result.error = lastCall.error
                /\ joinRoom(Reg, q, a, ws).result.error = lastCall.error

\* C12: a successful joinRoom sets the room's occupant to the canonical
\* identity, binds exactly one connection, for that identity, sets isReady,
\* adds the index entry identity -> roomId and returns the room's entry
\* deposit and rewardInfo; nothing else in the room, no other room and no
\* other index entry changes.
C12_JoinEffect ==
    \A a \in Requesters, r \in RoomIds, ws \in WsIds :
       LET j == joinRoom(Reg, r, a, ws)
           id == getAddress(a)
       IN j.result.success =>
             /\ j.reg.rooms =
                   [rooms EXCEPT ![r].player.eoa = id,
                                 ![r].connections = [x \in {id} |-> ws],
                                 ![r].isReady = TRUE]
             /\ DOMAIN j.reg.addressToRoom = DOMAIN addressToRoom \cup {id}
             /\ j.reg.addressToRoom[id] = r
             /\ \A b \in DOMAIN addressToRoom :
                   j.reg.addressToRoom[b] = addressToRoom[b]
             /\ j.result.roomId = r
             /\ j.result.entryDeposit = rooms[r].player.entryDeposit
             /\ j.result.rewardInfo = rooms[r].rewardInfo

\* A join under the lower-case spelling has just succeeded while another
\* identity stays in its own room.
C12_Witness ==
    /\ lastCall.op = "joinRoom"
    /\ lastCall.success
    /\ Cardinality(DOMAIN addressToRoom) = 2
    /\ \E r \in DOMAIN rooms :
          /\ rooms[r].player.eoa = Addr(1, "checksum")
          /\ rooms[r].isReady
          /\ DOMAIN rooms[r].connections = {Addr(1, "checksum")}
          /\ addressToRoom[Addr(1, "checksum")] = r

\* The registry operations that report failures.
FailingOps == {"joinRoom", "processPlayerAction", "leaveRoom", "startGame"}

\* C13: a registry operation that returns a failure (joinRoom,
\* processPlayerAction, leaveRoom, the start-game request) leaves the rooms,
\* every field of every room, the identity index and the pool as they were.
C13_FailureInv ==
    \A a \in AllAddrs :
       /\ ~leaveRoom(Reg, a).result.success => leaveRoom(Reg, a).reg = Reg
       /\ \A r \in RoomIds :
             /\ \A ws \in ApiSockets :
                   LET j == joinRoom(Reg, r, a, ws)
                   IN ~j.result.success => j.reg = Reg
             /\ LET g == handleStartGame(Reg, pool, r, a)
                IN ~g.result.success => g.reg = Reg
             /\ \A act \in AllActions :
                   LET p == processPlayerAction(Reg, r, act, a)
                   IN ~p.result.success => p.reg = Reg

C13_FailureStep ==
    (lastCall'.op \in FailingOps /\ ~lastCall'.success) =>
       UNCHANGED <<rooms, addressToRoom, nextRoomId, pool>>

C13_FailureChangesNothing == [](C13_FailureInv) /\ [][C13_FailureStep]_vars

\* An action of an unknown type has just been refused on a game in play that
\* has already lost a life.
C13_Witness ==
    /\ lastCall.op = "processPlayerAction"
    /\ lastCall.error = "Invalid action type"
    /\ \E r \in DOMAIN rooms :
          /\ rooms[r].gameState # NoGame
          /\ ~rooms[r].gameState.isGameOver
          /\ rooms[r].gameState.player.lives = 2

\* The address strings the connections map holds, as the handlers read them.
Connected == {connections[k].eoa : k \in 1..Len(connections)}

\* C14: a start-game request on an existing room by its occupant, the game
\* not started, creates the game state (lives 3, score 0, position (0,0),
\* chunk 0, no chunk completed, the room's entry deposit, the pool total of
\* that moment) and sets gameStarted; a start-game request on a started room
\* fails as already-started, and no step resets a started game.
C14_StartInv ==
    \A r \in DOMAIN rooms, a \in Connected :
       rooms[r].player.eoa = a =>
          LET g == handleStartGame(Reg, pool, r, a)
          IN IF rooms[r].gameStarted
             THEN /\ ~g.result.success
                  /\ g.result.error = "GAME_ALREADY_STARTED"
                  /\ g.reg = Reg
             ELSE /\ g.result.success
                  /\ g.reg.rooms =
                        [rooms EXCEPT
                           ![r].gameStarted = TRUE,
                           ![r].gameState =
                              [player |-> [eoa |-> a,
                                           position |-> [x |-> 0, y |-> 0],
                                           lives |-> 3,
                                           score |-> 0],
                               chunks |-> <<FALSE, FALSE, FALSE>>,
                               currentChunk |-> 0,
                               isGameOver |-> FALSE,
                               gameResult |-> "none",
                               rewardPool |-> pool.totalAmount,
                               entryDeposit |-> rooms[r].player.entryDeposit]]
                  /\ g.reg.addressToRoom = addressToRoom

C14_StartedStep ==
    \A r \in DOMAIN rooms :
       (rooms[r].gameStarted /\ MapHas(rooms', r)) =>
          /\ rooms'[r].gameStarted
          /\ steps'[r] = steps[r] => rooms'[r].gameState = rooms[r].gameState

C14_StartOnce == [](C14_StartInv) /\ [][C14_StartedStep]_vars

\* A game that started when the pool held a lost deposit is in play, has had
\* an action, and a start-game request on it is refused.
C14_Witness ==
    \E r \in DOMAIN rooms :
       /\ rooms[r].gameStarted
       /\ rooms[r].gameState.rewardPool = Dec(5)
       /\ ~rooms[r].gameState.isGameOver
       /\ steps[r] >= 1
       /\ handleStartGame(Reg, pool, r, rooms[r].player.eoa).result.error =
             "GAME_ALREADY_STARTED"

\* C15: a start-game request is refused as not-authorized only when the
\* requester is another identity than the room's occupant: the occupant,
\* under whichever spelling of the address it joined with, is not refused.
C15_OccupantMayStart ==
    \A k \in 1..Len(connections) :
       LET c == connections[k]
       IN (MapHas(rooms, c.roomId) /\ rooms[c.roomId].player.eoa = getAddress(c.eoa)) =>
             handleStartGame(Reg, pool, c.roomId, c.eoa).result.error # "NOT_AUTHORIZED"

\* The occupant of a ready room joined under the lower-case spelling, and its
\* start-game request is answered not-authorized.
C15_Witness ==
    \E k \in 1..Len(connections) :
       LET c == connections[k]
       IN /\ c.eoa = Addr(1, "lower")
          /\ MapHas(rooms, c.roomId)
          /\ rooms[c.roomId].player.eoa = Addr(1, "checksum")
          /\ rooms[c.roomId].isReady
          /\ ~rooms[c.roomId].gameStarted
          /\ FindPlayer(connections, c.ws) = c.eoa
          /\ handleStartGame(Reg, pool, c.roomId, c.eoa).result.error = "NOT_AUTHORIZED"

\* C16: processPlayerAction answers room-not-found for an absent room, else
\* not-in-room when the requester is not the room's occupant, else not-started
\* when the room has no game state; and a request by anyone but the occupant
\* never changes the room's game state.
C16_ActionFailureOrder ==
    \A a \in Requesters, r \in RoomIds, act \in AllActions :
       LET p == processPlayerAction(Reg, r, act, a)
           absent == ~MapHas(rooms, r)
           occupant == ~absent /\ rooms[r].player.eoa = getAddress(a)
       IN /\ absent => (~p.result.success /\ p.result.error = "Room not found")
          /\ (~absent /\ ~occupant) =>
                (~p.result.success /\ p.result.error = "Player not in this room")
          /\ (occupant /\ rooms[r].gameState = NoGame) =>
                (~p.result.success /\ p.result.error = "Game has not started")
          /\ ~occupant => p.reg = Reg

\* The last call was refused as not-in-room; one identity sits in a room that
\* has not started, another plays in its own room, and each is a stranger to
\* the other's room.
C16_Witness ==
    /\ lastCall.op = "processPlayerAction"
    /\ lastCall.error = "Player not in this room"
    /\ \E r \in DOMAIN rooms, q \in DOMAIN rooms :
          /\ rooms[r].player.eoa = Addr(1, "checksum")
          /\ rooms[r].gameState = NoGame
          /\ rooms[q].player.eoa = Addr(2, "checksum")
          /\ rooms[q].gameState # NoGame
          /\ ~rooms[q].gameState.isGameOver
          /\ processPlayerAction(Reg, r, LoseLife, Addr(2, "upper")).result.error =
                lastCall.error
          /\ processPlayerAction(Reg, q, LoseLife, Addr(1, "lower")).result.error =
                lastCall.error

\* C17: leaveRoom for an indexed identity removes the identity from the index
\* and its room from the registry and touches nothing else; afterwards the
\* room id is absent to every lookup and the same identity can join any free
\* room whose entry deposit joinRoom accepts; leaveRoom for an identity that
\* is not indexed fails and changes nothing.
C17_LeaveEffect ==
    \A a \in Requesters :
       LET id == getAddress(a)
           l == leaveRoom(Reg, a)
           r == l.result.roomId
       IN IF MapHas(addressToRoom, id)
          THEN /\ l.result.success
               /\ r = addressToRoom[id]
               /\ l.reg.addressToRoom = MapDel(addressToRoom, id)
               /\ l.reg.rooms = MapDel(rooms, r)
               /\ ~MapHas(l.reg.rooms, r)
               /\ \A b \in Requesters, ws \in ApiSockets :
                     /\ ~joinRoom(l.reg, r, b, ws).result.success
                     /\ ~MapHas(l.reg.addressToRoom, getAddress(b)) =>
                           joinRoom(l.reg, r, b, ws).result.error = "Room not found"
                     /\ processPlayerAction(l.reg, r, LoseLife, b).result.error =
                           "Room not found"
                     /\ handleStartGame(l.reg, pool, r, b).result.error =
                           "ROOM_NOT_FOUND"
               /\ closeRoom(l.reg, r).reg = l.reg
               /\ \A q \in DOMAIN l.reg.rooms, ws \in ApiSockets :
                     (/\ l.reg.rooms[q].player.eoa = NoAddr
                      /\ validateEntryDeposit(l.reg.rooms[q].player.entryDeposit)) =>
                        LET j == joinRoom(l.reg, q, a, ws)
                        IN /\ j.result.success
                           /\ j.reg.addressToRoom[id] = q
          ELSE /\ ~l.result.success
               /\ l.result.error = "Player not in any room"
               /\ l.reg = Reg

\* An identity has just left its room, which is gone, while a free room
\* stands open for it to join; and a second leave would be refused.
C17_Witness ==
    /\ lastCall.op = "leaveRoom"
    /\ lastCall.success
    /\ ~MapHas(addressToRoom, Addr(1, "checksum"))
    /\ ~MapHas(rooms, 1)
    /\ MapHas(rooms, 2)
    /\ rooms[2].player.eoa = NoAddr
    /\ joinRoom(Reg, 2, Addr(1, "lower"), 1).result.success
    /\ ~leaveRoom(Reg, Addr(1, "lower")).result.success

\* C18: closeRoom removes the room and every index entry that names it,
\* whatever the room's state (not joined, ready, started, game over), and
\* leaves every other room and index entry alone; on an absent room id, and
\* so on a second call, it changes nothing.
C18_CloseEffect ==
    \A r \in 1..(MaxRooms + 1) :
       LET c == closeRoom(Reg, r)
           kept == {a \in DOMAIN addressToRoom : addressToRoom[a] # r}
       IN /\ MapHas(rooms, r) =>
                /\ c.reg.rooms = MapDel(rooms, r)
                /\ c.reg.addressToRoom = [a \in kept |-> addressToRoom[a]]
          /\ ~MapHas(rooms, r) => c.reg = Reg
          /\ closeRoom(c.reg, r).reg = c.reg

\* The first room has just been closed and is gone, so closing it again does
\* nothing; the room that remains holds a finished game whose occupant is
\* still indexed, and closing it empties the registry and the index.
C18_Witness ==
    /\ lastCall.op = "closeRoom"
    /\ nextRoomId > 2
    /\ DOMAIN rooms = {2}
    /\ rooms[2].gameState # NoGame
    /\ rooms[2].gameState.isGameOver
    /\ DOMAIN addressToRoom = {rooms[2].player.eoa}
    /\ closeRoom(Reg, 1).reg = Reg
    /\ DOMAIN closeRoom(Reg, 2).reg.rooms = {}
    /\ DOMAIN closeRoom(Reg, 2).reg.addressToRoom = {}

\* C19: while the settlement close call of a finished game is pending, the
\* pool has already been settled for that game and the game result is stored;
\* and the step in which a settlement open or close call returns or fails
\* changes no pool field and no room's stored game state.
C19_SettledInv ==
    \A t \in tasks :
       t.kind = "close" =>
          /\ \E i \in 1..Len(ledger) :
                /\ ledger[i].room = t.room
                /\ ledger[i].op = settleOp(t.result)
          /\ MapHas(rooms, t.room) =>
                /\ rooms[t.room].gameState # NoGame
                /\ rooms[t.room].gameState.isGameOver
                /\ rooms[t.room].gameState.gameResult = t.result

C19_AwaitStep ==
    (\E t \in tasks \ tasks' : t.kind \in {"open", "close"}) =>
       /\ pool' = pool
       /\ ledger' = ledger
       /\ DOMAIN rooms' = DOMAIN rooms
       /\ \A r \in DOMAIN rooms : rooms'[r].gameState = rooms[r].gameState

C19_SettlementFailureIsHarmless ==
    [](C19_SettledInv) /\ [][C19_AwaitStep]_vars

\* The close call of a lost game has failed: its session is still open and
\* the teardown timer is armed, the result is stored, and the pool holds
\* what the settlement left in it.
C19_Witness ==
    \E r \in DOMAIN rooms :
       /\ r \in appSessions
       /\ rooms[r].appId # NoAppId
       /\ Task("timer", r, "none") \in tasks
       /\ \A t \in tasks : t.kind # "close"
       /\ rooms[r].gameState # NoGame
       /\ rooms[r].gameState.gameResult = "lose"
       /\ Len(EntriesOf(r)) = 1
       /\ EntriesOf(r)[1].success
       /\ pool.totalAmount = EntriesOf(r)[1].after
       /\ pool.totalLosses = 1

\* C20: whenever a room's game is over, the room is eventually gone from the
\* registry and no index entry names it, whether the settlement close call
\* succeeds or fails, given that the call returns and the timer fires.
C20_TerminalRoomIsRemoved ==
    \A r \in RoomIds :
       GameOver(r) ~>
          (/\ ~MapHas(rooms, r)
           /\ \A a \in DOMAIN addressToRoom : addressToRoom[a] # r)

\* A settled game whose close call failed (its session is still open) has
\* been torn down by the timer: the room and its index entry are gone while
\* the player's socket is still connected.
C20_Witness ==
    \E r \in RoomIds :
       /\ Len(EntriesOf(r)) = 1
       /\ r \in appSessions
       /\ tasks = {}
       /\ ~MapHas(rooms, r)
       /\ DOMAIN addressToRoom = {}
       /\ Len(connections) = 1
       /\ connections[1].roomId = r

\* C21 as stated: the pending settlement close call of a finished game
\* carries a two-element vector [playerShare, operatorShare], the entry
\* deposit and zero on a win, zero and the entry deposit on a loss.
C21_TwoElementAllocation ==
    \A t \in tasks :
       (t.kind = "close" /\ MapHas(rooms, t.room)) =>
          /\ Len(t.alloc) = 2
          /\ t.result = "win" =>
                t.alloc = <<rooms[t.room].player.entryDeposit, Dec(0)>>
          /\ t.result = "lose" =>
                t.alloc = <<Dec(0), rooms[t.room].player.entryDeposit>>

\* A won game's close call is pending and carries three elements: the entry
\* deposit, zero, zero.
C21_Witness ==
    \E t \in tasks :
       /\ t.kind = "close"
       /\ t.result = "win"
       /\ GameOver(t.room)
       /\ t.alloc = <<rooms[t.room].player.entryDeposit, Dec(0), Dec(0)>>
       /\ Len(t.alloc) = 3

\* C22: every accepted action of a room stores exactly what the engine makes
\* of the state stored before it and that action, the stored state changes in
\* no other step (start creates it, teardown removes the room), and the
\* count of accepted actions grows by one each time; so the state after n
\* accepted actions is the engine folded over them in the order received,
\* handlers suspended on a settlement call notwithstanding.
C22_ActionStep ==
    \A r \in DOMAIN rooms :
       /\ \A ws \in WsIds, act \in SoloActions :
             (HandleAction(ws, r, act, MaxActions) /\ steps'[r] = steps[r] + 1) =>
                /\ MapHas(rooms', r)
                /\ rooms'[r].gameState =
                      processAction(rooms[r].gameState, act,
                                    rooms[r].player.eoa).gameState
       /\ (MapHas(rooms', r) /\ rooms'[r].gameState # rooms[r].gameState) =>
             \/ /\ rooms[r].gameState = NoGame
                /\ steps'[r] = steps[r]
                /\ rooms'[r].gameState =
                      createGame(rooms[r].player.eoa, rooms[r].player.entryDeposit,
                                 pool.totalAmount)
             \/ /\ rooms[r].gameState # NoGame
                /\ steps'[r] = steps[r] + 1
                /\ \E act \in SoloActions :
                      LET e == processAction(rooms[r].gameState, act,
                                             rooms[r].player.eoa)
                      IN e.success /\ rooms'[r].gameState = e.gameState

C22_ActionsInOrder == [][C22_ActionStep]_vars

\* Two actions have been accepted while the start request is still suspended
\* on the session open call: a coin was taken, then a life was lost.
C22_Witness ==
    \E r \in DOMAIN rooms :
       /\ Task("open", r, "none") \in tasks
       /\ steps[r] = 2
       /\ rooms[r].gameState # NoGame
       /\ rooms[r].gameState.player.score = DefaultValue
       /\ rooms[r].gameState.player.lives = InitialLives - 1
       /\ rooms[r].gameState =
             processAction(
                processAction(createGame(rooms[r].player.eoa,
                                         rooms[r].player.entryDeposit,
                                         rooms[r].gameState.rewardPool),
                              InteractCoin, rooms[r].player.eoa).gameState,
                LoseLife, rooms[r].player.eoa).gameState

\* The game the engine is driven on, and its player.
Game == rooms[1].gameState
Owner == Game.player.eoa

\* C23: in every reachable game state x and y are not negative; and on a game
\* in play every move with a direction among left, right, up, down and a
\* distance of at least 1, and every jump, succeeds: left and up lower their
\* coordinate by the distance and stop at 0, right and down raise theirs by
\* exactly the distance, the other coordinate stays, and a jump is an up move
\* of 2.
C23_PositionInv ==
    /\ Game.player.position.x >= 0
    /\ Game.player.position.y >= 0
    /\ ~Game.isGameOver =>
          /\ \A m \in MoveInputs :
                LET e == processAction(Game, m, Owner)
                    d == OrDefault(m.distance, DefaultDistance)
                    old == Game.player.position
                    new == e.gameState.player.position
                IN /\ e.success
                   /\ d >= 1
                   /\ new.x >= 0 /\ new.y >= 0
                   /\ m.direction = "left" =>
                         new = [x |-> Max(0, old.x - d), y |-> old.y]
                   /\ m.direction = "up" =>
                         new = [x |-> old.x, y |-> Max(0, old.y - d)]
                   /\ m.direction = "right" =>
                         new = [x |-> old.x + d, y |-> old.y]
                   /\ m.direction = "down" =>
                         new = [x |-> old.x, y |-> old.y + d]
          /\ LET e == processAction(Game, Jump, Owner)
             IN /\ e.success
                /\ e.gameState.player.position =
                      [x |-> Game.player.position.x,
                       y |-> Max(0, Game.player.position.y - JumpDistance)]

\* Four moves have been made and the player stands at (0, 1), from where a
\* left move of any distance stays at x = 0 and an up move of 5 stops at
\* y = 0 while a jump from y = 1 also stops at 0.
C23_Witness ==
    /\ lastCall.op = "processAction"
    /\ lastCall.success
    /\ steps[1] = MaxEngineSteps
    /\ Game.player.position = [x |-> 0, y |-> 1]
    /\ Game.player.score = 0
    /\ processAction(Game, MoveLeftTwo, Owner).gameState.player.position.x = 0
    /\ processAction(Game, Jump, Owner).gameState.player.position.y = 0

\* What an interaction with an object of the given type is worth per unit of
\* value, as the claim lists it.
Multiplier(objectType) ==
    CASE objectType = "coin" -> 1
      [] objectType = "gem" -> 2
      [] objectType = "treasure" -> 5
      [] objectType = "powerup" -> 1
      [] OTHER -> 0

\* C24: on a game in play an interact action with value v >= 0 succeeds and
\* changes the score by exactly v for coin, 2v for gem, 5v for treasure, v
\* for powerup and 0 for any other object type; lives, position, chunks and
\* currentChunk are unchanged.
C24_InteractEffect ==
    ~Game.isGameOver =>
       \A i \in InteractInputs :
          LET e == processAction(Game, i, Owner)
              v == OrDefault(i.value, DefaultValue)
          IN /\ v >= 0
             /\ e.success
             /\ e.gameState.player.score =
                   Game.player.score + Multiplier(i.objectType) * v
             /\ e.gameState =
                   [Game EXCEPT !.player.score = e.gameState.player.score]

\* A coin of 10 and a gem of 3 have been taken, and nothing else: the score
\* is 16; a treasure of 3 would add 15 and a rock nothing.
C24_Witness ==
    /\ lastCall.op = "processAction"
    /\ lastCall.success
    /\ steps[1] = 2
    /\ Game = [createGame(Owner, Game.entryDeposit, Game.rewardPool)
                  EXCEPT !.player.score = 16]
    /\ processAction(Game, Action("interact", "", Absent, "treasure", Opt(3)),
                     Owner).gameState.player.score = 31
    /\ processAction(Game, InteractRock, Owner).gameState = Game

\* C25: in every reachable game state 0 <= currentChunk <= len(chunks) - 1;
\* on a game in play complete_chunk succeeds, marks the current chunk
\* completed, advances currentChunk by exactly one unless it is the last
\* chunk, where it stays, and adds exactly 100 to the score.
C25_ChunkInv ==
    /\ Game.currentChunk >= 0
    /\ Game.currentChunk <= Len(Game.chunks) - 1
    /\ ~Game.isGameOver =>
          LET e == processAction(Game, CompleteChunk, Owner)
              last == Game.currentChunk = Len(Game.chunks) - 1
          IN /\ e.success
             /\ e.gameState.currentChunk =
                   IF last THEN Game.currentChunk ELSE Game.currentChunk + 1
             /\ e.gameState.player.score = Game.player.score + 100
             /\ e.gameState.chunks =
                   [Game.chunks EXCEPT ![Game.currentChunk + 1] = TRUE]
             /\ e.gameState.player.lives = Game.player.lives
             /\ e.gameState.player.position = Game.player.position

\* The three chunks have been completed one after the other: the third
\* completion left currentChunk at the last chunk, and the score is 300.
C25_Witness ==
    /\ lastCall.op = "processAction"
    /\ lastCall.success
    /\ steps[1] = NumChunks
    /\ \A i \in 1..Len(Game.chunks) : Game.chunks[i]
    /\ Game.currentChunk = NumChunks - 1
    /\ Game.player.score = NumChunks * 100

Origin == [x |-> 0, y |-> 0]

\* C26: in every reachable game state 0 <= lives <= 3, and the result is
\* lose exactly when no life is left; on a game in play lose_life succeeds,
\* lowers lives by exactly one and puts the player at (0,0), ending the game
\* as lost exactly when it takes the last life; and lives change in no other
\* way, so a fresh game is lost exactly at its third lose_life whatever moves
\* and interactions come in between.
C26_LivesInv ==
    /\ Game.player.lives \in 0..InitialLives
    /\ (Game.gameResult = "lose") <=> (Game.player.lives = 0)
    /\ Game.player.lives = 0 => Game.isGameOver
    /\ ~Game.isGameOver =>
          /\ LET e == processAction(Game, LoseLife, Owner)
             IN /\ e.success
                /\ e.gameState.player.lives = Game.player.lives - 1
                /\ e.gameState.player.position = Origin
                /\ e.gameState.isGameOver <=> (Game.player.lives = 1)
                /\ (e.gameState.gameResult = "lose") <=> (Game.player.lives = 1)
          /\ \A a \in MoveInputs \cup InteractInputs \cup {Jump} :
                LET e == processAction(Game, a, Owner)
                IN /\ e.gameState.player.lives = Game.player.lives
                   /\ ~e.gameState.isGameOver

C26_LivesStep ==
    Game'.player.lives # Game.player.lives =>
       /\ Game'.player.lives = Game.player.lives - 1
       /\ Game'.player.position = Origin
       /\ Game' = processAction(Game, LoseLife, Owner).gameState

C26_ThreeLives == [](C26_LivesInv) /\ [][C26_LivesStep]_vars

\* The third lose_life has just ended the game as lost; a coin of 10 was
\* taken somewhere in between.
C26_Witness ==
    /\ lastCall.op = "processAction"
    /\ lastCall.success
    /\ steps[1] = InitialLives + 1
    /\ Game.player.lives = 0
    /\ Game.player.score = 10
    /\ Game.isGameOver
    /\ Game.gameResult = "lose"
    /\ Game.player.position = Origin

\* isGameOver and gameResult of a game state agree with its lives and chunks
\* as the claim says.
OverAsItShould(gs) ==
    LET allCompleted == \A i \in 1..Len(gs.chunks) : gs.chunks[i]
    IN /\ gs.isGameOver <=> (gs.player.lives = 0 \/ allCompleted)
       /\ gs.gameResult = "lose" => gs.player.lives = 0
       /\ gs.gameResult = "win" => allCompleted
       /\ (gs.gameResult = "none") <=> ~gs.isGameOver
       /\ gs.gameResult \in {"none", "win", "lose"}

\* C27: in every reachable game state, and in the state every accepted
\* action returns, isGameOver is true exactly when lives = 0 or all chunks
\* are completed; gameResult is lose only if lives = 0, win only if all
\* chunks are completed, and none exactly when isGameOver is false.
C27_GameOverInv ==
    /\ OverAsItShould(Game)
    /\ \A a \in EngineInputs :
          LET e == processAction(Game, a, Owner)
          IN e.success => OverAsItShould(e.gameState)

\* A game has just been won with two lives left, after one life was lost.
C27_Witness ==
    /\ lastCall.op = "processAction"
    /\ lastCall.success
    /\ Game.isGameOver
    /\ Game.gameResult = "win"
    /\ Game.player.lives = InitialLives - 1
    /\ \A i \in 1..Len(Game.chunks) : Game.chunks[i]

\* The engine applied to a sequence of actions, first to last.
RECURSIVE Play(_, _, _)
Play(gs, actions, playerEoa) ==
    IF actions = <<>> THEN gs
    ELSE Play(processAction(gs, Head(actions), playerEoa).gameState,
              Tail(actions), playerEoa)

CoinThenThreeChunks ==
    <<InteractCoin, CompleteChunk, CompleteChunk, CompleteChunk>>

\* C28: for every started room, a coin of 10 and three complete_chunk actions
\* applied to its freshly created game complete every chunk with score 310
\* and result win, the game not being over before the third complete_chunk;
\* and when the room's stored game is that one, settled against an empty
\* pool, the settlement was a withdrawal of 0 that left the pool total at 0.
C28_WinOnEmptyPool ==
    \A r \in DOMAIN rooms :
       rooms[r].gameState # NoGame =>
          LET who == rooms[r].player.eoa
              fresh == createGame(who, rooms[r].player.entryDeposit,
                                  rooms[r].gameState.rewardPool)
              early == Play(fresh, SubSeq(CoinThenThreeChunks, 1, 3), who)
              final == Play(fresh, CoinThenThreeChunks, who)
          IN /\ ~early.isGameOver
             /\ early.gameResult = "none"
             /\ final.isGameOver
             /\ final.gameResult = "win"
             /\ final.player.score = 310
             /\ \A i \in 1..Len(final.chunks) : final.chunks[i]
             /\ rooms[r].gameState = final =>
                   /\ Len(EntriesOf(r)) = 1
                   /\ EntriesOf(r)[1].op = "withdraw"
                   /\ EntriesOf(r)[1].before = Dec(0) =>
                         /\ EntriesOf(r)[1].amount = Dec(0)
                         /\ EntriesOf(r)[1].after = Dec(0)
                         /\ Len(ledger) = 1 => pool.totalAmount = Dec(0)

\* The room's game has been won with score 310 in four accepted actions and
\* settled against the empty pool.
C28_Witness ==
    \E r \in DOMAIN rooms :
       /\ GameOver(r)
       /\ steps[r] = 4
       /\ rooms[r].gameState.gameResult = "win"
       /\ rooms[r].gameState.player.score = 310
       /\ Len(EntriesOf(r)) = 1
       /\ EntriesOf(r)[1].op = "withdraw"
       /\ EntriesOf(r)[1].amount = Dec(0)
       /\ pool.totalAmount = Dec(0)
       /\ outbox # [q \in RoomIds |-> <<>>]

\* C29: the step in which a room's game ends in a loss settles it with the
\* pool: totalAmount becomes its previous value plus the entry deposit the
\* room has carried since it was created, totalLosses and totalGames grow by
\* one each and totalWins stays; no step changes a room's entry deposit; so
\* an empty pool and a deposit of 0.05 give a total of 0.05 and one loss.
C29_LossStep ==
    \A r \in DOMAIN rooms \cap DOMAIN rooms' :
          /\ rooms'[r].player.entryDeposit = rooms[r].player.entryDeposit
          /\ (/\ rooms'[r].gameState # NoGame
              /\ rooms'[r].gameState.gameResult = "lose"
              /\ rooms[r].gameState.gameResult # "lose") =>
                LET d == rooms[r].player.entryDeposit
                IN /\ ledger' = Append(ledger, ledger'[Len(ledger')])
                   /\ ledger'[Len(ledger')].room = r
                   /\ ledger'[Len(ledger')].op = "deposit"
                   /\ ledger'[Len(ledger')].amount = d
                   /\ rooms'[r].gameState.entryDeposit = d
                   /\ (pool.totalAmount.k = "dec" /\ d.k = "dec") =>
                         pool'.totalAmount = Dec(pool.totalAmount.v + d.v)
                   /\ pool'.totalLosses = pool.totalLosses + 1
                   /\ pool'.totalGames = pool.totalGames + 1
                   /\ pool'.totalWins = pool.totalWins
                   /\ (pool = InitialPool /\ d = Dec(5)) =>
                         pool' = [totalAmount |-> Dec(5), totalGames |-> 1,
                                  totalWins |-> 0, totalLosses |-> 1]

C30_RejectedInv ==
    ~Game.isGameOver =>
       \A who \in Requesters, a \in EngineInputs :
          LET e == processAction(Game, a, who)
          IN /\ getAddress(who) # Owner =>
                   /\ ~e.success
                   /\ e.error = "Not your game"
                   /\ e.gameState = NoGame
             /\ (getAddress(who) = Owner /\ a.type \notin ActionTypes) =>
                   /\ ~e.success
                   /\ e.error = "Invalid action type"
                   /\ e.gameState = NoGame
             /\ (getAddress(who) = Owner /\ a.type \in ActionTypes) => e.success

C30_RejectedStep ==
    (lastCall'.op = "processAction" /\ ~lastCall'.success) =>
       UNCHANGED <<rooms, steps, pool>>

C30_RejectedCalls == [](C30_RejectedInv) /\ [][C30_RejectedStep]_vars

\* A call by another identity has just been refused on a game in play that
\* has a coin and a lost life behind it, and an unknown action type by the
\* player would be refused too.
C30_Witness ==
    /\ lastCall.op = "processAction"
    /\ lastCall.error = "Not your game"
    /\ ~Game.isGameOver
    /\ Game.player.score = 10
    /\ Game.player.lives = InitialLives - 1
    /\ processAction(Game, Fly, Addr(1, "lower")).error = "Invalid action type"
    /\ processAction(Game, Fly, Addr(2, "lower")).error = "Not your game"

\* The fields of a game state that no action is to touch.
Frame(gs) == <<gs.entryDeposit, gs.player.eoa, gs.rewardPool>>

\* C31: the entryDeposit of a room's game state is the entry deposit the room
\* was created with and its player is the room's occupant; no action, ending
\* the game or not, changes the game's entryDeposit, player identity or pool
\* snapshot, either in what processAction returns or in what a step stores;
\* the snapshot is the pool total of the moment the game was created.
C31_FrameInv ==
    \A r \in DOMAIN rooms :
       rooms[r].gameState # NoGame =>
          /\ rooms[r].gameState.entryDeposit = rooms[r].player.entryDeposit
          /\ rooms[r].gameState.player.eoa = rooms[r].player.eoa
          /\ \A a \in AllActions :
                LET e == processAction(rooms[r].gameState, a, rooms[r].player.eoa)
                IN e.success => Frame(e.gameState) = Frame(rooms[r].gameState)

C31_FrameStep ==
    \A r \in DOMAIN rooms \cap DOMAIN rooms' :
       /\ rooms'[r].player.entryDeposit = rooms[r].player.entryDeposit
       /\ rooms[r].gameState # NoGame =>
             /\ rooms'[r].gameState # NoGame
             /\ Frame(rooms'[r].gameState) = Frame(rooms[r].gameState)
       /\ (rooms[r].gameState = NoGame /\ rooms'[r].gameState # NoGame) =>
             Frame(rooms'[r].gameState) =
                <<rooms[r].player.entryDeposit, rooms[r].player.eoa,
                  pool.totalAmount>>

C31_FrameUnchanged == [](C31_FrameInv) /\ [][C31_FrameStep]_vars

\* A game that started when the pool held 0.05 has ended after the pool was
\* emptied or refilled: its snapshot is still 0.05 and its deposit the
\* room's.
C31_Witness ==
    \E r \in DOMAIN rooms :
       /\ GameOver(r)
       /\ steps[r] = MaxConcActions
       /\ rooms[r].gameState.rewardPool = Dec(5)
       /\ rooms[r].gameState.rewardPool # pool.totalAmount
       /\ rooms[r].gameState.entryDeposit = Dec(5)

\* C32: for every room in the registry, gameStarted implies isReady and a
\* game state, and isReady holds exactly when the room has an occupant; and
\* from one state to the next, while the room stays in the registry, isReady
\* and gameStarted never go from true to false.
C32_FlagsInv ==
    \A r \in DOMAIN rooms :
       /\ rooms[r].gameStarted => (rooms[r].isReady /\ rooms[r].gameState # NoGame)
       /\ rooms[r].isReady <=> (rooms[r].player.eoa # NoAddr)
       /\ rooms[r].gameState # NoGame => rooms[r].gameStarted

C32_FlagsStep ==
    \A r \in DOMAIN rooms \cap DOMAIN rooms' :
       /\ rooms[r].isReady => rooms'[r].isReady
       /\ rooms[r].gameStarted => rooms'[r].gameStarted

C32_FlagsOneWay == [](C32_FlagsInv) /\ [][C32_FlagsStep]_vars

\* One room has been joined and started and its game has since ended, while
\* another has been joined and not started.
C32_Witness ==
    \E r \in DOMAIN rooms, q \in DOMAIN rooms :
       /\ rooms[r].isReady /\ rooms[r].gameStarted
       /\ GameOver(r)
       /\ rooms[q].isReady /\ ~rooms[q].gameStarted
       /\ lastCall.op = "startGame"
       /\ lastCall.error = "GAME_ALREADY_STARTED"


-----------------------------------------------------------------------------
-----------------------------------------------------------------------------
\* C34: processAction does not modify the game state passed to it: whatever
\* the action and the claimed identity, after the call the passed state has
\* the score, the chunk flags and every other field it had before.
C34_InputUntouched ==
    \A action \in EngineInputs, playerEoa \in EnginePlayers :
        passedGameState(Game, action, playerEoa) = Game

\* A coin is picked up on a game in play: the passed state has the score of
\* the returned one; and a chunk is completed: the passed state has the flag
\* of the returned one, and its old score.
C34_Witness ==
    /\ ~Game.isGameOver
    /\ lastCall.op = "processAction"
    /\ LET coin == processAction(Game, InteractCoin, Owner)
           chunk == processAction(Game, CompleteChunk, Owner)
       IN /\ coin.success /\ chunk.success
          /\ coin.gameState.player.score # Game.player.score
          /\ passedGameState(Game, InteractCoin, Owner).player.score
                = coin.gameState.player.score
          /\ chunk.gameState.chunks # Game.chunks
          /\ passedGameState(Game, CompleteChunk, Owner).chunks
                = chunk.gameState.chunks
          /\ passedGameState(Game, CompleteChunk, Owner).player.score
                = Game.player.score


-----------------------------------------------------------------------------
\* The completed chunks of gs are the first ones, and every chunk before the
\* current one is among them.
ChunksInOrder(gs) ==
    /\ \A i \in 1..Len(gs.chunks) :
          gs.chunks[i] => \A j \in 1..(i - 1) : gs.chunks[j]
    /\ gs.currentChunk \in 0..(Len(gs.chunks) - 1)
    /\ \A i \in 1..gs.currentChunk : gs.chunks[i]

\* C35: in every game state a chunk is completed only if every chunk before
\* it is, and every chunk with an index below currentChunk is completed; and
\* every action accepted on such a state returns such a state.
C35_ChunkPrefix ==
    /\ ChunksInOrder(Game)
    /\ \A action \in EngineInputs :
          LET result == processAction(Game, action, Owner)
          IN result.success => ChunksInOrder(result.gameState)

\* Two chunks done and the third in play, after a complete_chunk.
C35_Witness ==
    /\ lastCall.op = "processAction"
    /\ lastCall.success
    /\ Game.chunks = <<TRUE, TRUE, FALSE>>
    /\ Game.currentChunk = 2
    /\ ~Game.isGameOver
    /\ Game.player.score >= 2 * ChunkBonus


-----------------------------------------------------------------------------
\* C36: a create-and-join request that fails leaves no room behind: every
\* room in the registry has an occupant, and the occupant of every occupied
\* room is indexed to that room.
C36_NoRoomLeftBehind ==
    \A r \in DOMAIN rooms :
        /\ rooms[r].player.eoa # NoAddr
        /\ MapHas(addressToRoom, rooms[r].player.eoa)
        /\ addressToRoom[rooms[r].player.eoa] = r

\* A create-and-join request was refused for its deposit: nobody is
\* connected or indexed, no message went out, and the room it created is in
\* the registry, empty and not ready.
C36_Witness ==
    /\ nextRoomId = 2
    /\ MapHas(rooms, 1)
    /\ rooms[1].player.eoa = NoAddr
    /\ rooms[1].connections = EmptyMap
    /\ ~rooms[1].isReady
    /\ ~validateEntryDeposit(rooms[1].player.entryDeposit)
    /\ DOMAIN addressToRoom = {}
    /\ connections = <<>>
    /\ outbox[1] = <<>>


-----------------------------------------------------------------------------
\* The game:over messages sent to room r.
GameOverMsgs(r) == SelectSeq(outbox[r], LAMBDA m : m.type = "game:over")

\* C37: on a win the rewardAmount of the game:over message is the amount the
\* withdraw of that game took from the pool, and zero when that withdraw
\* failed on an empty pool, whatever other rooms did to the pool since the
\* game started.
C37_RewardIsWithdrawn ==
    \A r \in RoomIds :
        \A i \in 1..Len(GameOverMsgs(r)) :
            LET m == GameOverMsgs(r)[i]
                e == EntriesOf(r)[i]
            IN m.body.gameResult = "win" =>
                  /\ i <= Len(EntriesOf(r))
                  /\ e.op = "withdraw"
                  /\ m.body.rewardAmount =
                        IF e.success THEN e.amount ELSE Dec(0)

\* Two games started on a pool of 0.05.  The first to win took it; the
\* second won on the empty pool, its withdraw failed, and its game:over
\* message reports a reward of 0.05.
C37_Witness ==
    \E r, other \in RoomIds :
        /\ r # other
        /\ Len(EntriesOf(other)) = 1
        /\ EntriesOf(other)[1].op = "withdraw"
        /\ EntriesOf(other)[1].success
        /\ EntriesOf(other)[1].amount = Dec(5)
        /\ Len(EntriesOf(r)) = 1
        /\ EntriesOf(r)[1].op = "withdraw"
        /\ ~EntriesOf(r)[1].success
        /\ EntriesOf(r)[1].before = Dec(0)
        /\ EntriesOf(r)[1].after = Dec(0)
        /\ Len(GameOverMsgs(r)) = 1
        /\ GameOverMsgs(r)[1].body.gameResult = "win"
        /\ GameOverMsgs(r)[1].body.rewardAmount = Dec(5)
        /\ pool.totalAmount = Dec(0)


-----------------------------------------------------------------------------
\* C38: on a loss the newPoolAmount of the game:over message is the pool's
\* totalAmount right after the deposit of that loss, whatever other rooms
\* did to the pool since the game started.
C38_NewPoolIsActual ==
    \A r \in RoomIds :
        \A i \in 1..Len(GameOverMsgs(r)) :
            LET m == GameOverMsgs(r)[i]
                e == EntriesOf(r)[i]
            IN m.body.gameResult = "lose" =>
                  /\ i <= Len(EntriesOf(r))
                  /\ e.op = "deposit"
                  /\ m.body.newPoolAmount = e.after

\* Two games started on an empty pool and both were lost with a deposit of
\* 0.05: the second loss brought the pool to 0.10, and its game:over message
\* reports a new pool amount of 0.05.
C38_Witness ==
    \E r, other \in RoomIds :
        /\ r # other
        /\ Len(EntriesOf(other)) = 1
        /\ EntriesOf(other)[1].op = "deposit"
        /\ EntriesOf(other)[1].after = Dec(5)
        /\ Len(EntriesOf(r)) = 1
        /\ EntriesOf(r)[1].op = "deposit"
        /\ EntriesOf(r)[1].before = Dec(5)
        /\ EntriesOf(r)[1].after = Dec(10)
        /\ pool.totalAmount = Dec(10)
        /\ Len(GameOverMsgs(r)) = 1
        /\ GameOverMsgs(r)[1].body.gameResult = "lose"
        /\ GameOverMsgs(r)[1].body.newPoolAmount = Dec(5)
        /\ GameOverMsgs(other)[1].body.newPoolAmount = Dec(5)


-----------------------------------------------------------------------------
\* A closeAppSession call for room r has been made and has not returned.
ClosePending(r) == \E t \in tasks : t.kind = "close" /\ t.room = r

\* The session of room r is open and the game of room r is over.
OpenAndOver(r) == r \in appSessions /\ GameOver(r)

\* C39: as soon as a room has both an open session and a game that is over,
\* a close call for that room is issued, whether the game ended after the
\* session was opened or while the open call of the start request had not
\* returned.
C39_CloseIssued ==
    [][\A r \in RoomIds :
          (~OpenAndOver(r) /\ OpenAndOver(r)') => ClosePending(r)']_vars

\* The game ended while createAppSession was in flight: game:over went out
\* before game:started, the session is open, the game is settled, and only
\* the clean-up timer is pending.
C39_Witness ==
    \E r \in RoomIds :
        /\ r \in appSessions
        /\ GameOver(r)
        /\ rooms[r].appId # NoAppId
        /\ Len(EntriesOf(r)) = 1
        /\ tasks = {Task("timer", r, "none")}
        /\ \E i, j \in 1..Len(outbox[r]) :
              /\ i < j
              /\ outbox[r][i].type = "game:over"
              /\ outbox[r][j].type = "game:started"


-----------------------------------------------------------------------------
\* Room r got at most one game:over message, and each one right after a
\* room:state message that carries a terminal state and with the one pool
\* operation of that game on record.
OverInOrder(r) ==
    /\ Len(GameOverMsgs(r)) <= 1
    /\ \A j \in 1..Len(outbox[r]) :
          outbox[r][j].type = "game:over" =>
             /\ j > 1
             /\ outbox[r][j - 1].type = "room:state"
             /\ outbox[r][j - 1].over
             /\ Len(EntriesOf(r)) = 1
             /\ EntriesOf(r)[1].op = settleOp(outbox[r][j].body.gameResult)

\* Whatever is sent to a room whose game is over comes from the start
\* request resuming after createAppSession, never from an action: actions on
\* a finished game are rejected and send nothing to the room.
C40_QuietStep ==
    \A r \in RoomIds :
        (GameOver(r) /\ outbox'[r] # outbox[r]) =>
            /\ Task("open", r, "none") \in tasks
            /\ Task("open", r, "none") \notin tasks'
            /\ GameOverMsgs(r)' = GameOverMsgs(r)

\* Every action is rejected on a finished game.
C40_Rejected ==
    \A r \in RoomIds, c \in ConcClients, act \in ConcActions :
        GameOver(r) => ~processPlayerAction(Reg, r, act, c.eoa).result.success

=============================================================================
